---- MODULE Spec2Model ----
(***************************************************************************)
(* Earth-Viz cloud pipeline.                                               *)
(*                                                                         *)
(* Spec        the two CloudScheduler implementations                      *)
(*             (backend/cloud_scheduler.py, which runs cloud_generator.py  *)
(*             in a worker thread, and services/cloud_scheduler.py, which  *)
(*             downloads the finished images), the application start-up    *)
(*             and shutdown handlers and the asyncio event loop.           *)
(* SpecPipe    the control flow of one image pipeline, run after run:      *)
(*             cloud_generator.py (loads, process_images, the saves, the   *)
(*             day/night blend) and LiveCloudService.generate_live_clouds. *)
(* SpecPipeFs  cloud_generator.py on an output directory that other        *)
(*             processes may remove files from.                            *)
(* SpecRaster  the raster stages of process_images on small rasters.       *)
(* SpecRow     the gap fill of process_images on one row.                  *)
(* SpecOrder   the gap fill of process_images, the rows out of order.      *)
(* SpecSwap    the hemisphere swap of process_images applied twice.        *)
(* SpecMask    create_terminator_mask on a grid of 15 degrees.             *)
(* SpecRead    the endpoints that serve the image files.                   *)
(* SpecWs      EarthWebSocketManager and the websocket endpoint            *)
(*             (earth_control.py) with sockets that come and go.           *)
(* SpecBlend   screen, multiply, gamma, interpolate and the statements of  *)
(*             the pipeline that write a channel value.                    *)
(***************************************************************************)
EXTENDS Integers, Sequences, FiniteSets, TLC

\* ---------------------------------------------------------------- bounds
MaxForce == 1
MaxTicks == 1
MaxThreads == 2
MaxRuns == 1
MaxCalls == 2
MaxWorkers == 2
Scale == 1
MaxSockets == 3

\* ------------------------------------------------------- scheduler state
VARIABLES
    variant,                 \* which CloudScheduler class is deployed: "pkg" | "backend"
    appPhase,                \* application lifecycle: "init" | "up" | "down"
    pc,                      \* position of every asyncio task
    ready,                   \* the event loop's FIFO queue of ready tasks
    cancelReq,               \* Task.cancel() was requested for the schedule loop task
    running,                 \* CloudScheduler.running
    task,                    \* CloudScheduler.task: "none" | "set"
    generation_in_progress,  \* CloudScheduler.generation_in_progress (pkg)
    cycle,                   \* number of download cycles begun (pkg)
    runOf,                   \* download cycle a task is carrying out (pkg)
    earthClouds,             \* cycle whose day image is in earth-clouds.jpg, 0 = absent
    earthCloudsNight,        \* cycle whose night image is in earth-clouds-night.jpg
    thr,                     \* position of every worker thread (backend)
    follow,                  \* process a worker thread is blocked on (backend)
    proc,                    \* state of every cloud_generator.py subprocess (backend)
    current_process,         \* CloudScheduler.current_process, 0 = None (backend)
    guardT,                  \* task between the two reads of the guard at line 88
    ticks,                   \* interval timers elapsed so far
    runsStarted,             \* history: runs started
    triggersIdle,            \* history: calls of generate_clouds that found no run in progress
    periodicCalls,           \* history: calls of generate_clouds made by _schedule_loop
    stopCalled               \* history: stop() has been entered

lifeVars == <<variant, appPhase>>
loopVars == <<pc, ready, cancelReq, running, task, guardT, ticks>>
pkgVars == <<generation_in_progress, cycle, runOf, earthClouds, earthCloudsNight>>
thrVars == <<thr, follow, proc, current_process>>
histVars == <<runsStarted, triggersIdle, periodicCalls, stopCalled>>
schedVars == <<lifeVars, loopVars, pkgVars, thrVars, histVars>>

\* -------------------------------------------------------- pipeline state
VARIABLES
    mode,          \* which pipeline runs: "cpu" (cloud_generator.py) | "gpu" (LiveCloudService)
    run,           \* number of the current run, 0 before the first
    defect,        \* what is wrong with the source images of the current run
    gpc,           \* position of the cloud_generator.py script
    loadIdx,       \* index of the module-level `for img in images_to_load` loop
    loaded,        \* images_to_load[k]['loaded']
    processCalls,  \* history: invocations of process_images in the current run
    stage,         \* output being composed or saved
    tier,          \* `i` of the loop in save_image_resolutions
    files,         \* OUTPUT_DIR: content of every output file of every tier
    blendSkipped,  \* history: create_day_night_blend returned at line 582
    fetch,         \* state of every fetch task of _fetch_source_images_async
    lpc,           \* position of generate_live_clouds
    liveResult,    \* what generate_live_clouds gave its caller
    vaoProgram,    \* LiveCloudService.vao.program
    pass1Program   \* history: program that rendered pass 1 of the current run

cpuVars == <<gpc, loadIdx, loaded, processCalls, stage, tier, files, blendSkipped>>
gpuVars == <<fetch, lpc, liveResult, vaoProgram, pass1Program>>
pipeVars == <<mode, run, defect, cpuVars, gpuVars>>

\* ---------------------------------------------------------- raster state
VARIABLES
    rpc,          \* position inside process_images: which raster stage was done last
    halfL,        \* shape of the *_LEFT source rasters of this run
    halfR,        \* shape of the *_RIGHT source rasters of this run
    frameOpaque,  \* columns where the frame texture is opaque
    cloud         \* cloud_array / cloud_map: one pixel record per row and column

rasterVars == <<rpc, halfL, halfR, frameOpaque, cloud>>

\* ------------------------------------------------- one function, one call
VARIABLES
    fpc,     \* "idle" | "ready" (the arguments are chosen) | "called" (it has returned)
    input,   \* the arguments of the call
    output   \* what the call returned or wrote

fnVars == <<fpc, input, output>>

\* ------------------------------------------------- websocket bridge state
VARIABLES
    active_connections,  \* EarthWebSocketManager.active_connections, a list of sockets
    ws,                  \* per socket: "new" | "open" | "gone" (peer lost) | "closed"
    cpc,                 \* position of send_command_to_earth
    iterIndex,           \* items the iterator of `for connection in ...` has passed
    connection,          \* the socket whose send_text is awaited
    disconnected,        \* local list `disconnected`
    sentTo,              \* history: sockets whose send_text returned normally
    clients_notified     \* the count in the returned dict

wsVars == <<active_connections, ws, cpc, iterIndex, connection, disconnected, sentTo,
            clients_notified>>
vars == <<schedVars, pipeVars, rasterVars, fnVars, wsVars>>

\* what an action of one part of the system leaves alone in the other parts
restOfSched == <<pipeVars, rasterVars, fnVars, wsVars>>
restOfPipe == <<schedVars, rasterVars, fnVars, wsVars>>
restOfRaster == <<schedVars, pipeVars, fnVars, wsVars>>
restOfFn == <<schedVars, pipeVars, rasterVars, wsVars>>
restOfWs == <<schedVars, pipeVars, rasterVars, fnVars>>

\* ----------------------------------------------------------------- tasks
StartT == <<"start", 0>>
Gen0T == <<"gen", 0>>
LoopT == <<"loop", 0>>
StopT == <<"stop", 0>>
ForceT(k) == <<"force", k>>
ForceTasks == {ForceT(k) : k \in 1..MaxForce}
Tasks == {StartT, Gen0T, LoopT, StopT} \cup ForceTasks
NoTask == <<"none", 0>>
Threads == 1..MaxThreads
Variants == {"pkg", "backend"}

InReady(t) == \E i \in 1..Len(ready) : ready[i] = t
Enqueue(q, t) == IF \E i \in 1..Len(q) : q[i] = t THEN q ELSE Append(q, t)
IsHead(t) == guardT = NoTask /\ ready # <<>> /\ Head(ready) = t

\* the runs in progress
PkgRuns == {t \in Tasks : pc[t] \in {"dl", "dl_ok", "dl_err"}}
LiveThreads == {i \in Threads : thr[i] \notin {"unused", "done"}}
LiveProcs == {i \in Threads : proc[i] = "alive"}
Busy == IF variant = "pkg" THEN PkgRuns # {} ELSE LiveThreads # {} \/ LiveProcs # {}

InitSched ==
    /\ variant \in Variants
    /\ appPhase = "init"
    /\ pc = [t \in Tasks |-> "none"]
    /\ ready = <<>>
    /\ cancelReq = FALSE
    /\ running = FALSE
    /\ task = "none"
    /\ generation_in_progress = FALSE
    /\ cycle = 0
    /\ runOf = [t \in Tasks |-> 0]
    /\ earthClouds = 0
    /\ earthCloudsNight = 0
    /\ thr = [i \in Threads |-> "unused"]
    /\ follow = [i \in Threads |-> 0]
    /\ proc = [i \in Threads |-> "none"]
    /\ current_process = 0
    /\ guardT = NoTask
    /\ ticks = 0
    /\ runsStarted = 0
    /\ triggersIdle = 0
    /\ periodicCalls = 0
    /\ stopCalled = FALSE

\* a loop that never ends: `while True:` with the cancellation swallowed
LoopStopsNever(isRunning, cancelled) == FALSE

\* `while self.running:`, `if self.running:` and `except asyncio.CancelledError: break`
LoopStops(isRunning, cancelled) == cancelled \/ ~isRunning

\* ------------------------------------------------ returning to the caller
\* The schedule loop task ends: a stop() awaiting it is woken (cloud_scheduler.py:58).
LoopExit(p) == [p EXCEPT ![LoopT] = "done", ![StopT] = IF p[StopT] = "join" THEN "joined" ELSE @]

\* pc after generate_clouds() returns (or raises) in task t.
RetPc(t, p, raised) ==
    IF t = LoopT
    THEN IF LoopStops(running, FALSE) THEN LoopExit(p) ELSE [p EXCEPT ![LoopT] = "sleep"]
    ELSE IF t = StartT
         THEN IF raised THEN [p EXCEPT ![StartT] = "done"]
              ELSE [p EXCEPT ![StartT] = "done", ![LoopT] = "begin"]
         ELSE [p EXCEPT ![t] = "done"]

\* ready queue after generate_clouds() returns in task t; q has t removed.
RetReady(t, q, raised) ==
    IF t = LoopT /\ LoopStops(running, FALSE) /\ pc[StopT] = "join" THEN Enqueue(q, StopT)
    ELSE IF t = StartT /\ ~raised THEN Enqueue(q, LoopT)
    ELSE q

RetTask(t, raised) == IF t = StartT /\ ~raised THEN "set" ELSE task

\* ---------------------------------------------------- application events
\* startup handler: asyncio.create_task(scheduler.start())
Startup ==
    /\ appPhase = "init"
    /\ appPhase' = "up"
    /\ pc' = [pc EXCEPT ![StartT] = "begin"]
    /\ ready' = Enqueue(ready, StartT)
    /\ UNCHANGED <<variant, cancelReq, running, task, guardT, ticks, pkgVars, thrVars, histVars, restOfSched>>

\* POST /api/v1/live-earth/generate: asyncio.create_task(scheduler.force_generate())
HttpTrigger(k) ==
    /\ appPhase = "up"
    /\ pc[ForceT(k)] = "none"
    /\ \A j \in 1..(k-1) : pc[ForceT(j)] # "none"
    /\ pc' = [pc EXCEPT ![ForceT(k)] = "call"]
    /\ ready' = Enqueue(ready, ForceT(k))
    /\ UNCHANGED <<lifeVars, cancelReq, running, task, guardT, ticks, pkgVars, thrVars, histVars, restOfSched>>

\* the shutdown event wakes the lifespan task, which runs `await scheduler.stop()`
Shutdown ==
    /\ appPhase = "up"
    /\ appPhase' = "down"
    /\ pc' = [pc EXCEPT ![StopT] = "begin"]
    /\ ready' = Enqueue(ready, StopT)
    /\ UNCHANGED <<variant, cancelReq, running, task, guardT, ticks, pkgVars, thrVars, histVars, restOfSched>>

\* ------------------------------------------------------ CloudScheduler.start
StartStep ==
    /\ IsHead(StartT) /\ pc[StartT] = "begin"
    /\ IF running
       THEN /\ pc' = [pc EXCEPT ![StartT] = "done"]
            /\ ready' = Tail(ready)
            /\ UNCHANGED <<running, task>>
       ELSE /\ running' = TRUE
            /\ IF variant = "pkg"
               THEN /\ pc' = [pc EXCEPT ![StartT] = "done", ![Gen0T] = "call", ![LoopT] = "begin"]
                    /\ ready' = Enqueue(Enqueue(Tail(ready), Gen0T), LoopT)
                    /\ task' = "set"
               ELSE /\ pc' = [pc EXCEPT ![StartT] = "call"]
                    /\ UNCHANGED <<ready, task>>
    /\ UNCHANGED <<lifeVars, cancelReq, guardT, ticks, pkgVars, thrVars, histVars, restOfSched>>

\* ------------------------------------------------------- CloudScheduler.stop
StopBegin ==
    /\ IsHead(StopT) /\ pc[StopT] = "begin"
    /\ stopCalled' = TRUE
    /\ running' = FALSE
    /\ IF task = "set" /\ pc[LoopT] # "done"
       THEN /\ cancelReq' = TRUE
            /\ pc' = [pc EXCEPT ![StopT] = "join"]
            /\ ready' = Enqueue(Tail(ready), LoopT)
       ELSE /\ pc' = [pc EXCEPT ![StopT] = "joined"]
            /\ UNCHANGED <<cancelReq, ready>>
    /\ UNCHANGED <<lifeVars, task, guardT, ticks, pkgVars, thrVars, runsStarted, triggersIdle, periodicCalls, restOfSched>>

StopJoined ==
    /\ IsHead(StopT) /\ pc[StopT] = "joined"
    /\ ready' = Tail(ready)
    /\ IF variant = "backend" /\ current_process # 0
       THEN /\ proc' = [proc EXCEPT ![current_process] = "exited"]
            /\ pc' = [pc EXCEPT ![StopT] = "grace"]
       ELSE /\ pc' = [pc EXCEPT ![StopT] = "done"]
            /\ UNCHANGED proc
    /\ UNCHANGED <<lifeVars, cancelReq, running, task, guardT, ticks, pkgVars, thr, follow, current_process, histVars, restOfSched>>

\* asyncio.sleep(5) in stop() elapses
GraceElapsed ==
    /\ pc[StopT] = "grace"
    /\ pc' = [pc EXCEPT ![StopT] = "graced"]
    /\ ready' = Enqueue(ready, StopT)
    /\ UNCHANGED <<lifeVars, cancelReq, running, task, guardT, ticks, pkgVars, thrVars, histVars, restOfSched>>

StopKill ==
    /\ IsHead(StopT) /\ pc[StopT] = "graced"
    /\ ready' = Tail(ready)
    /\ pc' = [pc EXCEPT ![StopT] = "done"]
    /\ proc' = IF current_process # 0 /\ proc[current_process] = "alive"
               THEN [proc EXCEPT ![current_process] = "exited"] ELSE proc
    /\ UNCHANGED <<lifeVars, cancelReq, running, task, guardT, ticks, pkgVars, thr, follow, current_process, histVars, restOfSched>>

\* ---------------------------------------------- CloudScheduler._schedule_loop
\* `while self.running:` entered for the first time, then asyncio.sleep
LoopBegin ==
    /\ IsHead(LoopT) /\ pc[LoopT] = "begin"
    /\ ready' = IF LoopStops(running, cancelReq) /\ pc[StopT] = "join"
                THEN Enqueue(Tail(ready), StopT) ELSE Tail(ready)
    /\ pc' = IF LoopStops(running, cancelReq) THEN LoopExit(pc) ELSE [pc EXCEPT ![LoopT] = "sleep"]
    /\ UNCHANGED <<lifeVars, cancelReq, running, task, guardT, ticks, pkgVars, thrVars, histVars, restOfSched>>

\* the interval timer of asyncio.sleep(self.interval_minutes * 60) fires
TimerFire ==
    /\ pc[LoopT] = "sleep"
    /\ ticks < MaxTicks
    /\ ticks' = ticks + 1
    /\ pc' = [pc EXCEPT ![LoopT] = "woke"]
    /\ ready' = Enqueue(ready, LoopT)
    /\ UNCHANGED <<lifeVars, cancelReq, running, task, guardT, pkgVars, thrVars, histVars, restOfSched>>

\* the loop resumes from the sleep: CancelledError breaks, otherwise `if self.running`
LoopWoke ==
    /\ IsHead(LoopT) /\ pc[LoopT] \in {"sleep", "woke"}
    /\ IF LoopStops(running, cancelReq)
       THEN /\ pc' = LoopExit(pc)
            /\ ready' = IF pc[StopT] = "join" THEN Enqueue(Tail(ready), StopT) ELSE Tail(ready)
       ELSE /\ pc' = [pc EXCEPT ![LoopT] = "call"]
            /\ UNCHANGED ready
    /\ UNCHANGED <<lifeVars, cancelReq, running, task, guardT, ticks, pkgVars, thrVars, histVars, restOfSched>>

\* ------------------------- generate_clouds, services/cloud_scheduler.py (pkg)
CallersPkg == {Gen0T, LoopT} \cup ForceTasks

\* the guard and the set of the in-progress flag, up to the first await
GuardPkg(flag) == flag

PkgCall(t) ==
    /\ variant = "pkg"
    /\ IsHead(t) /\ pc[t] = "call"
    /\ triggersIdle' = IF Busy THEN triggersIdle ELSE triggersIdle + 1
    /\ periodicCalls' = IF t = LoopT THEN periodicCalls + 1 ELSE periodicCalls
    /\ IF GuardPkg(generation_in_progress)
       THEN /\ pc' = RetPc(t, pc, FALSE)
            /\ ready' = RetReady(t, Tail(ready), FALSE)
            /\ UNCHANGED <<generation_in_progress, cycle, runOf, runsStarted>>
       ELSE /\ generation_in_progress' = TRUE
            /\ cycle' = cycle + 1
            /\ runOf' = [runOf EXCEPT ![t] = cycle + 1]
            /\ runsStarted' = runsStarted + 1
            /\ pc' = [pc EXCEPT ![t] = "dl"]
            /\ ready' = Tail(ready)
    /\ UNCHANGED <<lifeVars, cancelReq, running, task, guardT, ticks, earthClouds, earthCloudsNight, thrVars, stopCalled, restOfSched>>

\* both GET requests of the asyncio.gather have completed; raise_for_status
DownloadDone(t, ok) ==
    /\ pc[t] = "dl"
    /\ ~(t = LoopT /\ cancelReq)
    /\ pc' = [pc EXCEPT ![t] = IF ok THEN "dl_ok" ELSE "dl_err"]
    /\ ready' = Enqueue(ready, t)
    /\ UNCHANGED <<lifeVars, cancelReq, running, task, guardT, ticks, pkgVars, thrVars, histVars, restOfSched>>

\* the flag cleared on the success path only, no finally clause
FlagAtExitOnSuccess(flag, outcome) == IF outcome = "ok" THEN FALSE ELSE flag

\* value of generation_in_progress when generate_clouds is left (the finally clause)
FlagAtExit(flag, outcome) == FALSE

\* the rest of generate_clouds: the two temp-file writes and moves, except, finally.
\* outcome: "cancelled" | "dl_err" | "ok" | "dayfail" | "nightfail"
PkgFinish(t, outcome) ==
    /\ variant = "pkg"
    /\ IsHead(t) /\ pc[t] \in {"dl", "dl_ok", "dl_err"}
    /\ IF t = LoopT /\ cancelReq THEN outcome = "cancelled"
       ELSE IF pc[t] = "dl_err" THEN outcome = "dl_err"
       ELSE pc[t] = "dl_ok" /\ outcome \in {"ok", "dayfail", "nightfail"}
    /\ earthClouds' = IF outcome \in {"ok", "nightfail"} THEN runOf[t] ELSE earthClouds
    /\ earthCloudsNight' = IF outcome = "ok" THEN runOf[t] ELSE earthCloudsNight
    /\ generation_in_progress' = FlagAtExit(generation_in_progress, outcome)
    /\ runOf' = [runOf EXCEPT ![t] = 0]
    /\ IF outcome = "cancelled"
       THEN /\ pc' = LoopExit(pc)
            /\ ready' = IF pc[StopT] = "join" THEN Enqueue(Tail(ready), StopT) ELSE Tail(ready)
       ELSE /\ pc' = RetPc(t, pc, FALSE)
            /\ ready' = RetReady(t, Tail(ready), FALSE)
    /\ UNCHANGED <<lifeVars, cancelReq, running, task, guardT, ticks, cycle, thrVars, histVars, restOfSched>>

\* ------------------------------ generate_clouds, backend/cloud_scheduler.py
CallersBackend == {StartT, LoopT} \cup ForceTasks
FreeThread == CHOOSE i \in Threads : thr[i] = "unused" /\ \A j \in Threads : thr[j] = "unused" => i <= j

\* first read of self.current_process in the guard at line 88
BackendCall(t) ==
    /\ variant = "backend"
    /\ IsHead(t) /\ pc[t] = "call"
    /\ \E i \in Threads : thr[i] = "unused"
    /\ triggersIdle' = IF Busy THEN triggersIdle ELSE triggersIdle + 1
    /\ periodicCalls' = IF t = LoopT THEN periodicCalls + 1 ELSE periodicCalls
    /\ IF current_process = 0
       THEN /\ thr' = [thr EXCEPT ![FreeThread] = "check"]
            /\ runsStarted' = runsStarted + 1
            /\ pc' = RetPc(t, pc, FALSE)
            /\ ready' = RetReady(t, Tail(ready), FALSE)
            /\ task' = RetTask(t, FALSE)
            /\ UNCHANGED guardT
       ELSE /\ guardT' = t
            /\ pc' = [pc EXCEPT ![t] = "poll"]
            /\ UNCHANGED <<thr, runsStarted, ready, task>>
    /\ UNCHANGED <<lifeVars, cancelReq, running, ticks, pkgVars, follow, proc, current_process, stopCalled, restOfSched>>

\* second read of self.current_process: .poll() is None; then thread.start()
BackendPoll(t) ==
    /\ guardT = t /\ t # NoTask
    /\ guardT' = NoTask
    /\ LET raised == current_process = 0
           skip == current_process # 0 /\ proc[current_process] = "alive"
       IN /\ thr' = IF raised \/ skip THEN thr ELSE [thr EXCEPT ![FreeThread] = "check"]
          /\ runsStarted' = IF raised \/ skip THEN runsStarted ELSE runsStarted + 1
          /\ pc' = RetPc(t, pc, raised)
          /\ ready' = RetReady(t, Tail(ready), raised)
          /\ task' = RetTask(t, raised)
    /\ UNCHANGED <<lifeVars, cancelReq, running, ticks, pkgVars, follow, proc, current_process, triggersIdle, periodicCalls, stopCalled, restOfSched>>

\* ------------------------------------------- run_in_thread (worker thread)
\* the finally clause at lines 151-152
ThreadFinally(i) ==
    /\ current_process' = 0
    /\ thr' = [thr EXCEPT ![i] = "done"]

\* subprocess.run(['python', '--version']) and its four failure branches
ThreadCheck(i, ok) ==
    /\ thr[i] = "check"
    /\ IF ok THEN thr' = [thr EXCEPT ![i] = "popen"] /\ UNCHANGED current_process
       ELSE ThreadFinally(i)
    /\ UNCHANGED <<lifeVars, loopVars, pkgVars, follow, proc, histVars, restOfSched>>

\* os.path.exists('cloud_generator.py') and subprocess.Popen
ThreadPopen(i, exists) ==
    /\ thr[i] = "popen"
    /\ IF exists
       THEN /\ current_process' = i
            /\ proc' = [proc EXCEPT ![i] = "alive"]
            /\ thr' = [thr EXCEPT ![i] = "stream"]
       ELSE ThreadFinally(i) /\ UNCHANGED proc
    /\ UNCHANGED <<lifeVars, loopVars, pkgVars, follow, histVars, restOfSched>>

\* iter(self.current_process.stdout.readline, ''): reads the attribute again
ThreadStream(i) ==
    /\ thr[i] = "stream"
    /\ IF current_process = 0
       THEN ThreadFinally(i) /\ UNCHANGED follow
       ELSE /\ follow' = [follow EXCEPT ![i] = current_process]
            /\ thr' = [thr EXCEPT ![i] = "streaming"]
            /\ UNCHANGED current_process
    /\ UNCHANGED <<lifeVars, loopVars, pkgVars, proc, histVars, restOfSched>>

\* end of the output stream, then self.current_process.wait()
ThreadEof(i) ==
    /\ thr[i] = "streaming"
    /\ proc[follow[i]] = "exited"
    /\ IF current_process = 0
       THEN ThreadFinally(i) /\ UNCHANGED follow
       ELSE /\ follow' = [follow EXCEPT ![i] = current_process]
            /\ thr' = [thr EXCEPT ![i] = "waiting"]
            /\ UNCHANGED current_process
    /\ UNCHANGED <<lifeVars, loopVars, pkgVars, proc, histVars, restOfSched>>

\* wait() returns; returncode is logged; finally
ThreadWaited(i) ==
    /\ thr[i] = "waiting"
    /\ proc[follow[i]] = "exited"
    /\ ThreadFinally(i)
    /\ UNCHANGED <<lifeVars, loopVars, pkgVars, follow, proc, histVars, restOfSched>>

\* a cloud_generator.py subprocess ends, with any return code
ProcExit(i) ==
    /\ proc[i] = "alive"
    /\ proc' = [proc EXCEPT ![i] = "exited"]
    /\ UNCHANGED <<lifeVars, loopVars, pkgVars, thr, follow, current_process, histVars, restOfSched>>

\* ============================================================== pipeline
\* images_to_load (cloud_generator.py:24-85), _get_image_sources (live_cloud_service.py:83-94)
Images == 1..10
Channels == 1..6
FRAME == 7
EARTH_WITHOUT_CLOUDS == 8
EARTH_WITHOUT_CLOUDS_NIGHT == 9
SPECULAR_BASE == 10

\* What can be wrong with one source image:
\*   "missing"   the request or the open fails (no file, no connection, HTTP error)
\*   "empty"     the source delivers zero bytes
\*   "truncated" the header is readable, the pixel data is not
\*   "wrongdim"  a valid image that is not SOURCE_HEIGHT x SOURCE_HEIGHT (channels only)
NoDefect == <<0, "none">>
Defects ==
    {NoDefect} \cup (Images \X {"missing", "empty", "truncated"}) \cup (Channels \X {"wrongdim"})
LoadFailure(d) == d[2] \in {"missing", "empty", "truncated"}

\* the outputs in the order the script writes them
Outputs == <<"clouds", "clouds-alpha", "earth", "earth-night", "specular", "terminator-mask", "earth-realtime">>
EARTH == 3
EARTH_NIGHT == 4
SPECULAR == 5
TERMINATOR_MASK == 6
EARTH_REALTIME == 7
Stages == 1..7
Tiers == 0..3
\* content of an output file: absent, written by an earlier run, written by the
\* current run, or cut short by a save that failed
Absent == 0
Old == 1
Fresh == 2
Corrupt == 3
Aged(c) == IF c = Fresh THEN Old ELSE c

\* static texture a stage of process_images decodes first (lines 337, 377, 400, 418)
Needs(s) == CASE s = 1 -> FRAME
              [] s = EARTH -> EARTH_WITHOUT_CLOUDS
              [] s = EARTH_NIGHT -> EARTH_WITHOUT_CLOUDS_NIGHT
              [] s = SPECULAR -> SPECULAR_BASE
              [] OTHER -> 0

\* OUTPUT_DIR before the first run of a deployment, and after an earlier deployment
NoFiles == [f \in Stages \X Tiers |-> Absent]
OldFiles == [f \in Stages \X Tiers |-> Old]

\* no run has begun
NoRunYet ==
    /\ run = 0
    /\ defect = NoDefect
    /\ gpc = "idle"
    /\ loadIdx = 1
    /\ loaded = [k \in Images |-> FALSE]
    /\ processCalls = 0
    /\ stage = 1
    /\ tier = 0
    /\ blendSkipped = FALSE
    /\ fetch = [k \in Images |-> "idle"]
    /\ lpc = "idle"
    /\ liveResult = "none"
    /\ vaoProgram = "compose"
    /\ pass1Program = "none"

IdlePipe == NoRunYet /\ files = NoFiles

InitPipe ==
    /\ NoRunYet
    /\ \/ mode = "cpu" /\ files \in {NoFiles, OldFiles}
       \/ mode = "gpu" /\ files = NoFiles

\* ------------------------------------------------- cloud_generator.py (cpu)
\* the script is started (python cloud_generator.py): module state is fresh
StartRun(d) ==
    /\ mode = "cpu"
    /\ gpc \in {"idle", "done", "crashed"}
    /\ run < MaxRuns
    /\ run' = run + 1
    /\ defect' = d
    /\ gpc' = "load"
    /\ loadIdx' = 1
    /\ loaded' = [k \in Images |-> FALSE]
    /\ processCalls' = 0
    /\ stage' = 1
    /\ tier' = 0
    /\ blendSkipped' = FALSE
    /\ files' = [f \in Stages \X Tiers |-> Aged(files[f])]
    /\ UNCHANGED <<mode, gpuVars, restOfPipe>>

\* a check that is satisfied by the image that has just been loaded
AnyLoaded(l) == \E k \in Images : l[k]

\* check_if_all_loaded: no image of images_to_load has loaded == False
AllLoaded(l) == \A k \in Images : l[k]

\* position after process_images has returned into load_image, or was not called
AfterLoad(i) == IF i < 10 THEN "load" ELSE "blend"

\* load_image(img) for img = images_to_load[loadIdx], with check_if_all_loaded
LoadImage ==
    /\ mode = "cpu"
    /\ gpc = "load"
    /\ IF defect[1] = loadIdx /\ defect[2] \in {"missing", "empty"}
       THEN /\ gpc' = "crashed"
            /\ UNCHANGED <<loaded, processCalls, loadIdx, stage, tier>>
       ELSE /\ loaded' = [loaded EXCEPT ![loadIdx] = TRUE]
            /\ IF AllLoaded(loaded')
               THEN /\ processCalls' = processCalls + 1
                    /\ gpc' = "merge"
                    /\ UNCHANGED loadIdx
               ELSE /\ gpc' = AfterLoad(loadIdx)
                    /\ loadIdx' = IF loadIdx < 10 THEN loadIdx + 1 ELSE loadIdx
                    /\ UNCHANGED processCalls
            /\ stage' = IF gpc' = "blend" THEN TERMINATOR_MASK ELSE 1
            /\ tier' = 0
    /\ UNCHANGED <<mode, run, defect, files, blendSkipped, gpuVars, restOfPipe>>

\* process_images, lines 169-334: the six pastes decode the channel rasters; the
\* blend, the gap fill, the swap and the pole mirror raise nothing
Merge ==
    /\ mode = "cpu"
    /\ gpc = "merge"
    /\ gpc' = IF \E k \in Channels : (defect = <<k, "truncated">> \/ ~loaded[k]) THEN "crashed" ELSE "compose"
    /\ stage' = 1
    /\ tier' = 0
    /\ UNCHANGED <<mode, run, defect, loadIdx, loaded, processCalls, files, blendSkipped, gpuVars, restOfPipe>>

\* the composition of one output of process_images up to its save_image_resolutions
Compose ==
    /\ mode = "cpu"
    /\ gpc = "compose"
    /\ gpc' = IF Needs(stage) # 0 /\ (defect = <<Needs(stage), "truncated">> \/ ~loaded[Needs(stage)])
              THEN "crashed" ELSE "save"
    /\ tier' = 0
    /\ UNCHANGED <<mode, run, defect, loadIdx, loaded, processCalls, stage, files, blendSkipped, gpuVars, restOfPipe>>

\* content of an output file after image.save(output_path) on it
\* outcome: "ok" | "resample" (resize raises) | "encode" (save raises)
SavedContent(old, new, outcome) ==
    CASE outcome = "ok" -> new
      [] outcome = "resample" -> old
      [] OTHER -> IF old = Absent THEN Absent ELSE Corrupt

\* position after the last tier of a stage has been saved
AfterSave(s) ==
    CASE s \in {1, 2, EARTH, EARTH_NIGHT} -> "compose"
      [] s = SPECULAR -> AfterLoad(loadIdx)
      [] s = TERMINATOR_MASK -> "find"
      [] OTHER -> "done"

\* one iteration of the loop of save_image_resolutions(image, Outputs[stage], ...)
SaveTier(outcome) ==
    /\ mode = "cpu"
    /\ gpc = "save"
    /\ files' = [files EXCEPT ![<<stage, tier>>] = SavedContent(@, Fresh, outcome)]
    /\ IF outcome # "ok"
       THEN gpc' = "crashed" /\ UNCHANGED <<stage, tier, loadIdx>>
       ELSE IF tier < 3
            THEN tier' = tier + 1 /\ UNCHANGED <<gpc, stage, loadIdx>>
            ELSE /\ tier' = 0
                 /\ gpc' = AfterSave(stage)
                 /\ loadIdx' = IF stage = SPECULAR /\ loadIdx < 10 THEN loadIdx + 1 ELSE loadIdx
                 /\ stage' = IF gpc' = "blend" THEN TERMINATOR_MASK
                             ELSE IF gpc' = "load" THEN 1
                             ELSE IF stage < 7 THEN stage + 1 ELSE stage
    /\ UNCHANGED <<mode, run, defect, loaded, processCalls, blendSkipped, gpuVars, restOfPipe>>

\* create_day_night_blend, lines 540-556: solar position, mask, save of the mask
BlendMask ==
    /\ mode = "cpu"
    /\ gpc = "blend"
    /\ gpc' = "save"
    /\ stage' = TERMINATOR_MASK
    /\ tier' = 0
    /\ UNCHANGED <<mode, run, defect, loadIdx, loaded, processCalls, files, blendSkipped, gpuVars, restOfPipe>>

\* ------------------------------------------------------------ file names
\* SOURCE_WIDTH of cloud_generator.py in pixels (the rasters of SpecRaster are
\* scaled down, the directory names are not)
SOURCE_WIDTH_PX == 8192
\* a pyramid whose factors grow by one: 1, 2, 3, 4
TierScaleLinear(i) == i + 1
TierScale(i) == 2 ^ i
TierWidth(i) == SOURCE_WIDTH_PX \div TierScale(i)
TierHeight(i) == (SOURCE_WIDTH_PX \div 2) \div TierScale(i)
\* f'{width}x{height}' as the pair of its numbers
TierDir(i) == <<TierWidth(i), TierHeight(i)>>
\* formats argument of the call of save_image_resolutions for each output
Formats == <<"jpg", "png", "jpg", "jpg", "jpg", "png", "jpg">>
\* os.path.join(output_subdir, f'{filename}.{format_ext}')
PathOf(s, i) == <<TierDir(i), Outputs[s], Formats[s]>>
\* paths under OUTPUT_DIR at which a file exists
Existing(fs) == {PathOf(f[1], f[2]) : f \in {g \in Stages \X Tiers : fs[g] # Absent}}
\* paths a run has written
Written(fs) == {PathOf(f[1], f[2]) : f \in {g \in Stages \X Tiers : fs[g] = Fresh}}
\* expected_files of check_output_files
ExpectedFiles ==
    { <<<<2048, 1024>>, "earth-realtime", "jpg">>,
      <<<<2048, 1024>>, "earth", "jpg">>,
      <<<<2048, 1024>>, "earth-plain", "jpg">>,
      <<<<2048, 1024>>, "clouds", "jpg">> }
\* image_path of get_earth_clouds, get_earth_clouds_realtime and get_earth
ServedFiles ==
    { <<<<4096, 2048>>, "earth-clouds", "jpg">>,
      <<<<4096, 2048>>, "earth-clouds-realtime", "jpg">>,
      <<<<4096, 2048>>, "earth", "jpg">> }

\* the tiers create_day_night_blend looks at: range(1, 4)
BlendTiers == 1..3
HasBoth(fs, i) == fs[<<EARTH, i>>] # Absent /\ fs[<<EARTH_NIGHT, i>>] # Absent
\* a search that tests os.path.exists(day_path) only
FoundTierDayOnly(fs) ==
    IF \E i \in BlendTiers : fs[<<EARTH, i>>] # Absent
    THEN CHOOSE i \in BlendTiers : fs[<<EARTH, i>>] # Absent /\ \A j \in BlendTiers : fs[<<EARTH, j>>] # Absent => i <= j
    ELSE -1

\* tier the loop at lines 566-578 breaks at, -1 when it finds none
FoundTier(fs) ==
    IF \E i \in BlendTiers : HasBoth(fs, i)
    THEN CHOOSE i \in BlendTiers : HasBoth(fs, i) /\ \A j \in BlendTiers : HasBoth(fs, j) => i <= j
    ELSE -1

\* create_day_night_blend, lines 561-597: choice of the tier, load, blend
BlendFind ==
    /\ mode = "cpu"
    /\ gpc = "find"
    /\ LET i == FoundTier(files)
       IN IF i = -1
          THEN /\ gpc' = "done"
               /\ blendSkipped' = TRUE
               /\ UNCHANGED stage
          ELSE /\ gpc' = IF {files[<<EARTH, i>>], files[<<EARTH_NIGHT, i>>]} \cap {Absent, Corrupt} # {}
                         THEN "crashed" ELSE "save"
               /\ stage' = EARTH_REALTIME
               /\ UNCHANGED blendSkipped
    /\ tier' = 0
    /\ UNCHANGED <<mode, run, defect, loadIdx, loaded, processCalls, files, gpuVars, restOfPipe>>

\* somebody outside the pipeline removes earth.jpg or earth-night.jpg from a tier
\* directory after process_images has returned and before the tier search is over
ExternalRemove(s, i) ==
    /\ mode = "cpu"
    /\ gpc \in {"blend", "find"}
    /\ files[<<s, i>>] # Absent
    /\ files' = [files EXCEPT ![<<s, i>>] = Absent]
    /\ UNCHANGED <<mode, run, defect, gpc, loadIdx, loaded, processCalls, stage, tier, blendSkipped, gpuVars, restOfPipe>>

\* ------------------------------------ LiveCloudService.generate_live_clouds
\* generate_live_clouds is called: _fetch_source_images_async creates the ten tasks
LiveStart(d) ==
    /\ mode = "gpu"
    /\ lpc \in {"idle", "returned"}
    /\ run < MaxCalls
    /\ run' = run + 1
    /\ defect' = d
    /\ fetch' = [k \in Images |-> "pending"]
    /\ lpc' = "gather"
    /\ liveResult' = "none"
    /\ pass1Program' = "none"
    /\ UNCHANGED <<mode, cpuVars, vaoProgram, restOfPipe>>

\* _fetch_image / _read_local_image of one source returns (bytes or None)
FetchDone(k) ==
    /\ mode = "gpu"
    /\ fetch[k] = "pending"
    /\ fetch' = [fetch EXCEPT ![k] = "done"]
    /\ UNCHANGED <<mode, run, defect, cpuVars, lpc, liveResult, vaoProgram, pass1Program, restOfPipe>>

\* asyncio.gather(*tasks.values()) returns
AllFetched(f) == \A k \in Images : f[k] = "done"

\* image_data[k] is None (lines 98-104, 108-113)
DataIsNone(d, k) == d = <<k, "missing">>
\* `if data:` at line 134 is false for None and for zero bytes
DataIsFalsy(d, k) == d = <<k, "missing">> \/ d = <<k, "empty">>
\* state of textures[k] after _load_textures: "absent" | "None" | "texture"
TextureOf(d, k) ==
    IF DataIsFalsy(d, k) THEN "absent"
    ELSE IF d = <<k, "truncated">> THEN "None"
    ELSE "texture"

\* lines 147-161: the gather, the two abort checks and _load_textures
LiveLoad ==
    /\ mode = "gpu"
    /\ lpc = "gather"
    /\ AllFetched(fetch)
    /\ IF \E k \in Images : DataIsNone(defect, k)
       THEN lpc' = "returned" /\ liveResult' = "None"
       ELSE IF \E k \in Images : TextureOf(defect, k) = "None"
            THEN lpc' = "returned" /\ liveResult' = "None"
            ELSE lpc' = "pass1" /\ UNCHANGED liveResult
    /\ UNCHANGED <<mode, run, defect, cpuVars, fetch, vaoProgram, pass1Program, restOfPipe>>

\* lines 163-182: pass 1, textures[...] of the six channels, self.vao.render
LivePass1 ==
    /\ mode = "gpu"
    /\ lpc = "pass1"
    /\ IF \E k \in Channels : TextureOf(defect, k) = "absent"
       THEN lpc' = "returned" /\ liveResult' = "raised" /\ UNCHANGED pass1Program
       ELSE lpc' = "pass2" /\ pass1Program' = vaoProgram /\ UNCHANGED liveResult
    /\ UNCHANGED <<mode, run, defect, cpuVars, fetch, vaoProgram, restOfPipe>>

\* lines 184-203: pass 2, textures['FRAME'], vao.program = process_prog, read back
LivePass2 ==
    /\ mode = "gpu"
    /\ lpc = "pass2"
    /\ lpc' = "returned"
    /\ IF TextureOf(defect, FRAME) = "absent"
       THEN liveResult' = "raised" /\ UNCHANGED vaoProgram
       ELSE liveResult' = "image" /\ vaoProgram' = "process"
    /\ UNCHANGED <<mode, run, defect, cpuVars, fetch, pass1Program, restOfPipe>>

IdleSched ==
    /\ variant = "pkg"
    /\ appPhase = "init"
    /\ pc = [t \in Tasks |-> "none"]
    /\ ready = <<>>
    /\ cancelReq = FALSE
    /\ running = FALSE
    /\ task = "none"
    /\ generation_in_progress = FALSE
    /\ cycle = 0
    /\ runOf = [t \in Tasks |-> 0]
    /\ earthClouds = 0
    /\ earthCloudsNight = 0
    /\ thr = [i \in Threads |-> "unused"]
    /\ follow = [i \in Threads |-> 0]
    /\ proc = [i \in Threads |-> "none"]
    /\ current_process = 0
    /\ guardT = NoTask
    /\ ticks = 0
    /\ runsStarted = 0
    /\ triggersIdle = 0
    /\ periodicCalls = 0
    /\ stopCalled = FALSE

\* ================================================ rasters of process_images
\* cloud_generator.py:16-17, scaled down from 8192 x 4096
SOURCE_WIDTH == 16 * Scale
SOURCE_HEIGHT == SOURCE_WIDTH \div 2
Rows == 0..(SOURCE_HEIGHT - 1)
Cols == 0..(SOURCE_WIDTH - 1)
Sentinel == 255
GAP_BUFFER == 3

\* A source half raster is SOURCE_HEIGHT x SOURCE_HEIGHT.  Its shape says how
\* many columns at its west and east edge carry no data, that is, come out of
\* the channel blend of lines 217-255 with the value 255.
HalfShapes == [lead : {0, 1, 4}, trail : {0, 2}]

\* final_values of the channel blend at one pixel of a source half raster
SourceValue(side, shape, y, c) ==
    IF c < shape.lead \/ c >= SOURCE_HEIGHT - shape.trail THEN Sentinel
    ELSE (IF side = "LEFT" THEN 10 ELSE 15) + 10 * c + y

\* lines 186-198: ir_map.paste(ir_map_right, (0, 0)); ir_map.paste(ir_map_left,
\* (SOURCE_WIDTH // 2, 0)), the same for dust_map and visible_map: the source
\* raster and source column that land in column x of the merged maps
MergedSource(x) ==
    IF x < SOURCE_WIDTH \div 2 THEN <<"RIGHT", x>> ELSE <<"LEFT", x - SOURCE_WIDTH \div 2>>

ShapeOf(side) == IF side = "LEFT" THEN halfL ELSE halfR

\* lines 200-260: the pixel of cloud_array at row y, column x after the blend;
\* v is its red channel, o the source raster, row and column it was computed from
BlendedPixel(y, x) ==
    LET m == MergedSource(x)
    IN [v |-> SourceValue(m[1], ShapeOf(m[1]), y, m[2]), o |-> <<m[1], y, m[2]>>]

\* cloud_array before process_images has built it
NoRaster == <<>>

IdleRaster ==
    /\ rpc = "start"
    /\ halfL = [lead |-> 0, trail |-> 0]
    /\ halfR = [lead |-> 0, trail |-> 0]
    /\ frameOpaque = {}
    /\ cloud = NoRaster

InitRaster ==
    /\ rpc = "start"
    /\ halfL \in HalfShapes
    /\ halfR \in HalfShapes
    /\ frameOpaque \in {{}, {0, SOURCE_WIDTH - 1}}
    /\ cloud = NoRaster

\* np.linspace(a, b, n)[i] after np.clip(.., 0, 255).astype(np.uint8)
Linspace(a, b, n, i) ==
    IF i = n - 1 THEN b
    ELSE IF b >= a THEN a + (i * (b - a)) \div (n - 1)
    ELSE a - ((i * (a - b) + (n - 2)) \div (n - 1))

\* lines 292-307: the red values of a row with [gs, ge] filled
FillGap(vals, gs, ge, gsv, gev) ==
    IF ge > gs /\ gs >= 0 /\ ge < SOURCE_WIDTH
    THEN [x \in Cols |-> IF x >= gs /\ x <= ge THEN Linspace(gsv, gev, ge - gs + 1, x - gs) ELSE vals[x]]
    ELSE vals

NoGap == -99

\* lines 275-313: the scan of one row from column x on; gs is gap_start_x,
\* gsv gap_start_val, cnt after_gap_counter
RECURSIVE ScanRow(_, _, _, _, _)
ScanRow(vals, x, gs, gsv, cnt) ==
    IF x >= SOURCE_WIDTH THEN vals
    ELSE IF vals[x] = Sentinel /\ gs = NoGap
         THEN ScanRow(vals, x + 1, x - GAP_BUFFER,
                      IF x >= GAP_BUFFER THEN vals[x - GAP_BUFFER] ELSE vals[0], cnt)
    ELSE IF gs # NoGap /\ vals[x] < Sentinel /\ cnt < GAP_BUFFER
         THEN ScanRow(vals, x + 1, gs, gsv, cnt + 1)
    ELSE IF vals[x] < Sentinel /\ gs # NoGap /\ cnt = GAP_BUFFER
         THEN ScanRow(FillGap(vals, gs, x, gsv, vals[x]), x + 1, NoGap, 0, 0)
    ELSE ScanRow(vals, x + 1, gs, gsv, cnt)

\* lines 268-313 for one row: the three colour channels get the filled values
GapFillRow(row) ==
    LET filled == ScanRow([x \in Cols |-> row[x].v], 0, NoGap, 0, 0)
    IN [x \in Cols |-> [row[x] EXCEPT !.v = filled[x]]]

\* a pass over every row of the raster
GapRowsAll == Rows

\* line 264: range(SOURCE_HEIGHT // 8, SOURCE_HEIGHT - SOURCE_HEIGHT // 8)
GapRows == (SOURCE_HEIGHT \div 8)..(SOURCE_HEIGHT - SOURCE_HEIGHT \div 8 - 1)

\* the halves left where the merge put them
SwapHalvesForgotten(r) == r

\* a swap whose first crop is read only after the first paste: both halves end
\* up holding the former right half
SwapHalvesLateCrop(r) ==
    [y \in Rows |-> [x \in Cols |->
        IF x < SOURCE_WIDTH \div 2 THEN r[y][x + SOURCE_WIDTH \div 2] ELSE r[y][x]]]

\* lines 318-322: crop both halves, paste the right-hand crop at 0 and the
\* left-hand crop at SOURCE_WIDTH // 2
SwapHalves(r) ==
    [y \in Rows |-> [x \in Cols |->
        IF x < SOURCE_WIDTH \div 2 THEN r[y][x + SOURCE_WIDTH \div 2]
        ELSE r[y][x - SOURCE_WIDTH \div 2]]]

\* a mirroring that reflects each pole band onto itself
MirrorPolesOwnBand(r) ==
    LET m == SOURCE_HEIGHT \div 8
    IN [y \in Rows |->
           IF y < m THEN r[m - 1 - y]
           ELSE IF y >= SOURCE_HEIGHT - m THEN r[2 * SOURCE_HEIGHT - m - 1 - y]
           ELSE r[y]]

\* lines 324-334: bands of the vertically flipped copy pasted at the top and bottom
MirrorPoles(r) ==
    LET m == SOURCE_HEIGHT \div 8
        flipped == [y \in Rows |-> r[SOURCE_HEIGHT - 1 - y]]
    IN [y \in Rows |->
           IF y < m THEN flipped[SOURCE_HEIGHT - 2 * m + y]
           ELSE IF y >= SOURCE_HEIGHT - m THEN flipped[m + (y - (SOURCE_HEIGHT - m))]
           ELSE r[y]]

\* lines 336-338: Image.alpha_composite(cloud_map, frame_resized): where the frame
\* is opaque its (black) pixel replaces the cloud pixel's colour
FrameOver(r) ==
    [y \in Rows |-> [x \in Cols |-> IF x \in frameOpaque THEN [r[y][x] EXCEPT !.v = 0] ELSE r[y][x]]]

RasterBlend ==
    /\ rpc = "start"
    /\ rpc' = "blended"
    /\ cloud' = [y \in Rows |-> [x \in Cols |-> BlendedPixel(y, x)]]
    /\ UNCHANGED <<halfL, halfR, frameOpaque, restOfRaster>>

RasterGapFill ==
    /\ rpc = "blended"
    /\ rpc' = "gapfilled"
    /\ cloud' = [y \in Rows |-> IF y \in GapRows THEN GapFillRow(cloud[y]) ELSE cloud[y]]
    /\ UNCHANGED <<halfL, halfR, frameOpaque, restOfRaster>>

RasterSwap ==
    /\ rpc = "gapfilled"
    /\ rpc' = "swapped"
    /\ cloud' = SwapHalves(cloud)
    /\ UNCHANGED <<halfL, halfR, frameOpaque, restOfRaster>>

RasterMirror ==
    /\ rpc = "swapped"
    /\ rpc' = "mirrored"
    /\ cloud' = MirrorPoles(cloud)
    /\ UNCHANGED <<halfL, halfR, frameOpaque, restOfRaster>>

\* lines 336-342: frame overlay, then save_image_resolutions(cloud_map, 'clouds')
RasterPublish ==
    /\ rpc = "mirrored"
    /\ rpc' = "published"
    /\ cloud' = FrameOver(cloud)
    /\ UNCHANGED <<halfL, halfR, frameOpaque, restOfRaster>>

\* no function of the pipeline is being looked at on its own
\* earth_control.py:16-17, 61: the manager as constructed, no command sent yet
Sockets == 1..MaxSockets
IdleWs ==
    /\ active_connections = <<>>
    /\ ws = [w \in Sockets |-> "new"]
    /\ cpc = "idle"
    /\ iterIndex = 0
    /\ connection = 0
    /\ disconnected = <<>>
    /\ sentTo = {}
    /\ clients_notified = 0

IdleFn == fpc = "idle" /\ input = <<>> /\ output = <<>>

Init == InitSched /\ IdleWs /\ mode = "cpu" /\ IdlePipe /\ IdleRaster /\ IdleFn

NextSched ==
    \/ Startup
    \/ \E k \in 1..MaxForce : HttpTrigger(k)
    \/ Shutdown
    \/ StartStep
    \/ StopBegin
    \/ StopJoined
    \/ GraceElapsed
    \/ StopKill
    \/ LoopBegin
    \/ TimerFire
    \/ LoopWoke
    \/ \E t \in CallersPkg : PkgCall(t)
    \/ \E t \in CallersPkg, ok \in BOOLEAN : DownloadDone(t, ok)
    \/ \E t \in CallersPkg, o \in {"cancelled", "dl_err", "ok", "dayfail", "nightfail"} : PkgFinish(t, o)
    \/ \E t \in CallersBackend : BackendCall(t)
    \/ \E t \in CallersBackend : BackendPoll(t)
    \/ \E i \in Threads, ok \in BOOLEAN : ThreadCheck(i, ok)
    \/ \E i \in Threads, e \in BOOLEAN : ThreadPopen(i, e)
    \/ \E i \in Threads : ThreadStream(i)
    \/ \E i \in Threads : ThreadEof(i)
    \/ \E i \in Threads : ThreadWaited(i)
    \/ \E i \in Threads : ProcExit(i)

Next == NextSched

\* the schedulers on the event loop
Spec == Init /\ [][Next]_vars

NextCpu ==
    \/ \E d \in Defects : StartRun(d)
    \/ LoadImage
    \/ Merge
    \/ Compose
    \/ \E o \in {"ok", "resample", "encode"} : SaveTier(o)
    \/ BlendMask
    \/ BlendFind

NextGpu ==
    \/ \E d \in Defects : LiveStart(d)
    \/ \E k \in Images : FetchDone(k)
    \/ LiveLoad
    \/ LivePass1
    \/ LivePass2

NextPipe == NextCpu \/ NextGpu

\* the two pipelines, run after run, on an output directory nobody else touches
InitPipeline == IdleSched /\ IdleWs /\ InitPipe /\ IdleRaster /\ IdleFn
SpecPipe == InitPipeline /\ [][NextPipe]_vars

NextPipeFs ==
    \/ NextCpu
    \/ \E s \in {EARTH, EARTH_NIGHT}, i \in Tiers : ExternalRemove(s, i)

\* cloud_generator.py on an output directory that other processes may clean
InitPipeFs == InitPipeline /\ mode = "cpu"
SpecPipeFs == InitPipeFs /\ [][NextPipeFs]_vars

NextRaster ==
    \/ RasterBlend
    \/ RasterGapFill
    \/ RasterSwap
    \/ RasterMirror
    \/ RasterPublish

\* the raster stages of process_images on source rasters of every shape
InitRasters == IdleSched /\ IdleWs /\ mode = "cpu" /\ IdlePipe /\ InitRaster /\ IdleFn
SpecRaster == InitRasters /\ [][NextRaster]_vars

\* ================================================ the gap fill of one row
\* longest sentinel run of the rows looked at
MaxRunLen == 2

\* lines 258-260: the three colour channels of a pixel of cloud_array hold one value
Grey(v) == [r |-> v, g |-> v, b |-> v]

\* the known (non-sentinel) values of a row: rising, falling, constant, or
\* rising to the middle of the row and falling from there
RowShapes == {"up", "down", "flat", "peak"}
KnownValue(shape, x) ==
    CASE shape = "up" -> 10 + 7 * x
      [] shape = "down" -> 240 - 7 * x
      [] shape = "flat" -> 100
      [] OTHER -> IF x < SOURCE_WIDTH \div 2 THEN 10 + 14 * x ELSE 10 + 14 * (SOURCE_WIDTH - 1 - x)

\* a row of cloud_array after the channel blend, with sentinel runs of lengths
\* l1 and l2 that begin at columns s1 and s2
RowWith(shape, s1, l1, s2, l2) ==
    [x \in Cols |->
        Grey(IF (x >= s1 /\ x < s1 + l1) \/ (x >= s2 /\ x < s2 + l2) THEN Sentinel
             ELSE KnownValue(shape, x))]

RowInputs ==
    {RowWith(shape, s1, l1, s2, l2) :
        shape \in RowShapes, s1 \in Cols, l1 \in 0..MaxRunLen, s2 \in Cols, l2 \in 0..MaxRunLen}

\* lines 275-313: the gaps whose end the scan of a row accepts, in the order it
\* accepts them, each with gap_start_x, gap_end_x, gap_start_val, gap_end_val
RECURSIVE ScanGaps(_, _, _, _, _, _)
ScanGaps(vals, x, gs, gsv, cnt, acc) ==
    IF x >= SOURCE_WIDTH THEN acc
    ELSE IF vals[x] = Sentinel /\ gs = NoGap
         THEN ScanGaps(vals, x + 1, x - GAP_BUFFER,
                       IF x >= GAP_BUFFER THEN vals[x - GAP_BUFFER] ELSE vals[0], cnt, acc)
    ELSE IF gs # NoGap /\ vals[x] < Sentinel /\ cnt < GAP_BUFFER
         THEN ScanGaps(vals, x + 1, gs, gsv, cnt + 1, acc)
    ELSE IF vals[x] < Sentinel /\ gs # NoGap /\ cnt = GAP_BUFFER
         THEN ScanGaps(FillGap(vals, gs, x, gsv, vals[x]), x + 1, NoGap, 0, 0,
                       Append(acc, [gs |-> gs, ge |-> x, gsv |-> gsv, gev |-> vals[x]]))
    ELSE ScanGaps(vals, x + 1, gs, gsv, cnt, acc)

GapsOf(row) == ScanGaps([x \in Cols |-> row[x].r], 0, NoGap, 0, 0, <<>>)

\* lines 292-307: the columns the scan of a row writes to
FilledCols(row) ==
    LET gaps == GapsOf(row)
    IN {x \in Cols : \E k \in 1..Len(gaps) : gaps[k].gs >= 0 /\ x >= gaps[k].gs /\ x <= gaps[k].ge}

\* lines 268-313 for one row of cloud_array, colour channel by colour channel
GapFillPixels(row) ==
    LET filled == ScanRow([x \in Cols |-> row[x].r], 0, NoGap, 0, 0)
        cols == FilledCols(row)
    IN [x \in Cols |-> IF x \in cols THEN Grey(filled[x]) ELSE row[x]]

InitRow == IdleSched /\ IdleWs /\ mode = "cpu" /\ IdlePipe /\ IdleRaster /\ fpc = "ready" /\ input \in RowInputs /\ output = <<>>

\* one iteration of the loop over y at line 264
GapFillOneRow ==
    /\ fpc = "ready"
    /\ fpc' = "called"
    /\ output' = GapFillPixels(input)
    /\ UNCHANGED <<input, restOfFn>>

NextRow == GapFillOneRow

\* the gap fill on rows with up to two sentinel runs
SpecRow == InitRow /\ [][NextRow]_vars

\* ================================== the gap fill, row after row in any order
\* lines 275-313: the scan of one row from column x on, with the scan state
\* (gap_start_x, gap_start_val, after_gap_counter) it ends in
RECURSIVE ScanEnd(_, _, _, _, _)
ScanEnd(vals, x, gs, gsv, cnt) ==
    IF x >= SOURCE_WIDTH THEN [vals |-> vals, gs |-> gs, gsv |-> gsv, cnt |-> cnt]
    ELSE IF vals[x] = Sentinel /\ gs = NoGap
         THEN ScanEnd(vals, x + 1, x - GAP_BUFFER,
                      IF x >= GAP_BUFFER THEN vals[x - GAP_BUFFER] ELSE vals[0], cnt)
    ELSE IF gs # NoGap /\ vals[x] < Sentinel /\ cnt < GAP_BUFFER
         THEN ScanEnd(vals, x + 1, gs, gsv, cnt + 1)
    ELSE IF vals[x] < Sentinel /\ gs # NoGap /\ cnt = GAP_BUFFER
         THEN ScanEnd(FillGap(vals, gs, x, gsv, vals[x]), x + 1, NoGap, 0, 0)
    ELSE ScanEnd(vals, x + 1, gs, gsv, cnt)

\* lines 207-211: the scan state before the loop over the rows
NoScan == [gs |-> NoGap, gsv |-> 0, cnt |-> 0]

\* a row that begins with the scan state the row before ended in
RowStartCarried(prev) == prev

\* lines 268-272: the scan state at the start of a row
RowStart(prev) == NoScan

\* cloud_array after the channel blend: every row has a sentinel run of l
\* columns from column s on and t sentinel columns at its end
OrderRow(shape, y) ==
    [x \in Cols |->
        [v |-> IF (x >= shape.s /\ x < shape.s + shape.l) \/ x >= SOURCE_WIDTH - shape.t
               THEN Sentinel
               ELSE 10 + 3 * x + y]]
OrderRaster(shape) == [y \in Rows |-> OrderRow(shape, y)]
OrderShapes == [s : {3, 8}, l : {1, MaxRunLen}, t : {0, 2}]

InitOrder ==
    /\ IdleSched /\ IdleWs /\ mode = "cpu" /\ IdlePipe
    /\ rpc = "blended"
    /\ halfL = [lead |-> 0, trail |-> 0]
    /\ halfR = [lead |-> 0, trail |-> 0]
    /\ frameOpaque = {}
    /\ input \in OrderShapes
    /\ cloud = OrderRaster(input)
    /\ fpc = "rows" /\ output = [done |-> {}, last |-> NoGap, scan |-> NoScan]

\* the rows that may be processed next when the rows are handed out from top
\* to bottom to MaxWorkers workers: the MaxWorkers topmost unprocessed rows.
\* Every row can follow every other row this way.
InFlight(done) ==
    {y \in GapRows \ done : Cardinality({z \in GapRows \ done : z < y}) < MaxWorkers}

\* one iteration of the loop at line 264, for a row y not yet processed;
\* input is the shape of the raster before the pass, output.done the rows
\* processed, output.last the row processed last and output.scan the scan
\* state it has left behind
FillRowAnyOrder(y) ==
    /\ rpc = "blended"
    /\ fpc = "rows"
    /\ y \in InFlight(output.done)
    /\ \E s \in {RowStart(output.scan)} :
       \E e \in {ScanEnd([x \in Cols |-> cloud[y][x].v], 0, s.gs, s.gsv, s.cnt)} :
          /\ cloud' = [cloud EXCEPT ![y] = [x \in Cols |-> [cloud[y][x] EXCEPT !.v = e.vals[x]]]]
          /\ output' = [done |-> output.done \cup {y}, last |-> y,
                        scan |-> [gs |-> e.gs, gsv |-> e.gsv, cnt |-> e.cnt]]
    /\ rpc' = IF output'.done = GapRows THEN "gapfilled" ELSE "blended"
    /\ UNCHANGED <<fpc, input, halfL, halfR, frameOpaque, schedVars, pipeVars, wsVars>>

NextOrder == \E y \in Rows : FillRowAnyOrder(y)
SpecOrder == InitOrder /\ [][NextOrder]_vars

\* ========================================== the hemisphere swap, repeated
\* rasters the swap is applied to: a ramp of values that differ from pixel to
\* pixel or a constant raster, with one pixel set to 255
SwapPatterns == {"ramp", "flat"}
SwapInput(pat, my, mx) ==
    [y \in Rows |-> [x \in Cols |->
        IF y = my /\ x = mx THEN Sentinel
        ELSE IF pat = "ramp" THEN (y * SOURCE_WIDTH + x) % 255 ELSE 100]]
SwapInputs == {SwapInput(pat, my, mx) : pat \in SwapPatterns, my \in Rows, mx \in Cols}

InitSwap ==
    /\ IdleSched /\ IdleWs /\ mode = "cpu" /\ IdlePipe /\ IdleRaster
    /\ fpc = "ready" /\ input \in SwapInputs /\ output = <<>>

\* lines 318-322 applied to the raster at hand
SwapOnce ==
    /\ fpc = "ready"
    /\ fpc' = "once"
    /\ output' = SwapHalves(input)
    /\ UNCHANGED <<input, restOfFn>>

\* lines 318-322 applied to their own result
SwapAgain ==
    /\ fpc = "once"
    /\ fpc' = "twice"
    /\ output' = SwapHalves(output)
    /\ UNCHANGED <<input, restOfFn>>

NextSwap == SwapOnce \/ SwapAgain
SpecSwap == InitSwap /\ [][NextSwap]_vars

\* ================================================= the day/night mask
\* np.sin of 0, 15, ..., 90 degrees, in thousandths
SinTable == <<0, 259, 500, 707, 866, 966, 1000>>
\* angle between two neighbours of the table, and of the grids, in degrees
GridStep == 90 \div (Len(SinTable) - 1)
\* np.sin(np.radians(d)) and np.cos(np.radians(d)) in thousandths, d a multiple of GridStep
SinDeg(d) ==
    LET a == d % 360
    IN IF a <= 90 THEN SinTable[a \div GridStep + 1]
       ELSE IF a <= 180 THEN SinTable[(180 - a) \div GridStep + 1]
       ELSE IF a <= 270 THEN 0 - SinTable[(a - 180) \div GridStep + 1]
       ELSE 0 - SinTable[(360 - a) \div GridStep + 1]
CosDeg(d) == SinDeg(d + 90)

\* np.sin(twilight_angle), twilight_angle = np.radians(6), in units of 10^-9
SIN_TWILIGHT == 104528463

\* lat_grid = np.linspace(90, -90, height), lon_grid = np.linspace(-180, 180, width)
LatGrid == {90 - GridStep * k : k \in 0..(180 \div GridStep)}
LonGrid == {GridStep * k - 180 : k \in 0..(360 \div GridStep)}
MaskPixels == LatGrid \X LonGrid

\* lines 525-527: cos_zenith of the pixel at (lat, lon), in units of 10^-9
CosZenith(lat, lon, solar_lat, solar_lon) ==
    SinDeg(lat) * SinDeg(solar_lat) * 1000
        + CosDeg(lat) * CosDeg(solar_lat) * CosDeg(lon - solar_lon)

\* np.clip(x, lo, hi)
Clip(x, lo, hi) == IF x < lo THEN lo ELSE IF x > hi THEN hi ELSE x

\* a mask whose ramp is not clipped
DayMaskUnclipped(cz) == cz + SIN_TWILIGHT

\* line 533: day_mask as the numerator of the fraction day_mask = n / (2 sin 6deg):
\* np.clip((cos_zenith + sin) / (2 sin), 0, 1) = clip(cos_zenith + sin, 0, 2 sin) / (2 sin)
DayMask(cz) == Clip(cz + SIN_TWILIGHT, 0, 2 * SIN_TWILIGHT)

\* the mask value 1.0 in the units of DayMask
MaskOne == 2 * SIN_TWILIGHT

\* lines 509-535: the mask of all pixels
TerminatorMask(solar_lat, solar_lon) ==
    [p \in MaskPixels |-> DayMask(CosZenith(p[1], p[2], solar_lat, solar_lon))]

\* subsolar points on the grid; the declination stays within 23.44 degrees
SolarInputs ==
    {<<la, lo>> : la \in {l \in LatGrid : l >= -23 /\ l <= 23}, lo \in LonGrid}

InitMask ==
    /\ IdleSched /\ IdleWs /\ mode = "cpu" /\ IdlePipe /\ IdleRaster
    /\ fpc = "ready" /\ input \in SolarInputs /\ output = <<>>

\* create_terminator_mask(width, height, solar_lat, solar_lon)
CreateTerminatorMask ==
    /\ fpc = "ready"
    /\ fpc' = "called"
    /\ output' = TerminatorMask(input[1], input[2])
    /\ UNCHANGED <<input, restOfFn>>

NextMask == CreateTerminatorMask
SpecMask == InitMask /\ [][NextMask]_vars

\* ============================================ blend and gamma arithmetic
\* A value of the float arithmetic is kept as a fraction num / den of integers;
\* .astype(np.uint8) of a clipped value is the integer part.
Frac(n, d) == [num |-> n, den |-> d]
Floor(f) == f.num \div f.den
Max(a, b) == IF a >= b THEN a ELSE b
Min(a, b) == IF a <= b THEN a ELSE b

\* screen(a, b) = (1 - (1 - a/255) * (1 - b/255)) * 255
screen(a, b) == Frac(255 * 255 - (255 - a) * (255 - b), 255)

\* multiply(a, b) = a/255 * b/255 * 255
multiply(a, b) == Frac(a * b, 255)

\* 255 * pow(x / 255, 1 / 1.46) for x = 0..255, rounded up to the next integer
GAMMA_1_46 ==
    <<
       0, 6, 10, 13, 15, 18, 20, 22, 24, 26, 28, 30, 32, 34, 35, 37,
       39, 40, 42, 44, 45, 47, 48, 50, 51, 52, 54, 55, 57, 58, 59, 61,
       62, 63, 65, 66, 67, 68, 70, 71, 72, 73, 75, 76, 77, 78, 79, 81,
       82, 83, 84, 85, 86, 87, 89, 90, 91, 92, 93, 94, 95, 96, 97, 98,
       99, 100, 102, 103, 104, 105, 106, 107, 108, 109, 110, 111, 112, 113, 114, 115,
       116, 117, 118, 119, 120, 121, 122, 123, 124, 125, 125, 126, 127, 128, 129, 130,
       131, 132, 133, 134, 135, 136, 137, 138, 138, 139, 140, 141, 142, 143, 144, 145,
       146, 147, 147, 148, 149, 150, 151, 152, 153, 154, 154, 155, 156, 157, 158, 159,
       160, 160, 161, 162, 163, 164, 165, 165, 166, 167, 168, 169, 170, 170, 171, 172,
       173, 174, 175, 175, 176, 177, 178, 179, 179, 180, 181, 182, 183, 183, 184, 185,
       186, 187, 187, 188, 189, 190, 191, 191, 192, 193, 194, 194, 195, 196, 197, 198,
       198, 199, 200, 201, 201, 202, 203, 204, 204, 205, 206, 207, 207, 208, 209, 210,
       210, 211, 212, 213, 213, 214, 215, 216, 216, 217, 218, 219, 219, 220, 221, 222,
       222, 223, 224, 224, 225, 226, 227, 227, 228, 229, 230, 230, 231, 232, 232, 233,
       234, 235, 235, 236, 237, 237, 238, 239, 240, 240, 241, 242, 242, 243, 244, 244,
       245, 246, 247, 247, 248, 249, 249, 250, 251, 251, 252, 253, 253, 254, 255, 255
    >>

\* the gamma values process_images uses: 1.46 (IR), 2.0 (IR and dust), 1.5 (visible)
GammaVals == {"1.46", "2.0", "1.5"}

\* gamma(gamma_val, input_val) = 255 * pow(input_val / 255, 1 / gamma_val), rounded
\* up to the next integer: the root of 255 * x for 2.0, the cube root of
\* 255 * x^2 for 1.5
gamma(gamma_val, input_val) ==
    CASE gamma_val = "2.0" ->
            CHOOSE y \in 0..(2 * 255) : y * y >= 255 * input_val
                /\ \A z \in 0..(y - 1) : z * z < 255 * input_val
      [] gamma_val = "1.5" ->
            CHOOSE y \in 0..(2 * 255) : y * y * y >= 255 * input_val * input_val
                /\ \A z \in 0..(y - 1) : z * z * z < 255 * input_val * input_val
      [] OTHER -> GAMMA_1_46[input_val + 1]

\* interpolate(from_a, to_a, from_b, to_b, input_val), as a fraction over to_a - from_a
interpolate(from_a, to_a, from_b, to_b, input_val) ==
    IF input_val < from_a THEN Frac(from_b * (to_a - from_a), to_a - from_a)
    ELSE IF input_val > to_a THEN Frac(to_b * (to_a - from_a), to_a - from_a)
    ELSE Frac(from_b * (to_a - from_a) + (to_b - from_b) * (input_val - from_a), to_a - from_a)

\* a remap that is linear everywhere, without the two thresholds
IrRemapUnlimited(ir_raw) == Frac((ir_raw - 72) * 255, 178 - 72)

\* lines 226-228: ir = np.where(ir_raw < 72, 0, np.where(ir_raw > 178, 255,
\* (ir_raw - 72) / (178 - 72) * 255)), as a fraction over 178 - 72
IrRemap(ir_raw) ==
    IF ir_raw < 72 THEN Frac(0, 178 - 72)
    ELSE IF ir_raw > 178 THEN Frac(255 * (178 - 72), 178 - 72)
    ELSE Frac((ir_raw - 72) * 255, 178 - 72)

\* lines 237-255: final_values from combined, visible_max and use_visible;
\* np.clip(.. / 255, 0, 1) before each power, np.clip(.., 0, 255).astype(np.uint8) at the end
FinalValue(use_visible, visible_max, combined) ==
    LET output_values == gamma("2.0", Clip(combined, 0, 255))
        visible_values == gamma("1.5", Clip(visible_max, 0, 255))
    IN Clip(IF use_visible THEN Max(visible_values, output_values) ELSE output_values, 0, 255)

\* an edge glow without the upper limit
EdgeGlowUnlimited(x) == (2 * x + 255) \div 2

\* line 350: lambda x: min(255, int(x + 0.5 * 255))
EdgeGlow(x) == Min(255, (2 * x + 255) \div 2)

\* lines 381-389: earth_array * (1 - (1 - shadow_alpha) * 0.55), clipped and cast
Shadowed(earth, shadow) ==
    Clip(Floor(Frac(earth * (255 * 100 - (255 - shadow) * 55), 255 * 100)), 0, 255)

\* lines 405-412 and 433-439: array * (inverted alpha / 255), clipped and cast
Darkened(v, inverted) == Clip(Floor(multiply(v, inverted)), 0, 255)

\* the mask values of the real-time blend looked at: 0, 1/4, 1/2, 3/4, 1
MaskLevels == 0..4
\* lines 594-597: day * mask + night * (1 - mask), clipped and cast
Realtime(day, night, k) == Clip(Floor(Frac(day * k + night * (4 - k), 4)), 0, 255)

\* a channel value
Byte == 0..255
\* channel values at and around the thresholds of the pipeline
Samples == {0, 1, 71, 72, 73, 125, 127, 128, 177, 178, 179, 254, 255}
\* widths of the gaps looked at
GapWidths == {2, 5}

BlendInputs ==
    {<<op, a, b>> : op \in {"screen", "multiply"}, a \in Byte, b \in Byte}
    \cup {<<"gamma", g, x>> : g \in GammaVals, x \in Byte}
    \cup {<<"interpolate", x>> : x \in Byte}
    \cup {<<"ir", x>> : x \in Byte}
    \cup {<<"glow", x>> : x \in Byte}
    \cup {<<"final", u, v, c>> : u \in BOOLEAN, v \in Samples, c \in Samples}
    \cup {t \in {<<"gap", a, b, n, i>> : a \in Samples, b \in Samples, n \in GapWidths, i \in 0..4} : t[5] < t[4]}
    \cup {<<op, a, b>> : op \in {"shadow", "night", "specular"}, a \in Samples, b \in Samples}
    \cup {<<"realtime", d, n, k>> : d \in Samples, n \in Samples, k \in MaskLevels}

InitBlend ==
    /\ IdleSched /\ IdleWs /\ mode = "cpu" /\ IdlePipe /\ IdleRaster
    /\ fpc = "ready" /\ input \in BlendInputs /\ output = <<>>

\* the call or statement named by input[1] is executed; r is its value
Returns(op, r) ==
    /\ fpc = "ready"
    /\ input[1] = op
    /\ fpc' = "called"
    /\ output' = r
    /\ UNCHANGED <<input, restOfFn>>

CallScreen == Returns("screen", screen(input[2], input[3]))
CallMultiply == Returns("multiply", multiply(input[2], input[3]))
CallGamma == Returns("gamma", Frac(gamma(input[2], input[3]), 1))
CallInterpolate == Returns("interpolate", interpolate(72, 178, 0, 255, input[2]))
RemapIr == Returns("ir", IrRemap(input[2]))
WriteGlow == Returns("glow", Frac(EdgeGlow(input[2]), 1))
WriteFinal == Returns("final", Frac(FinalValue(input[2], input[3], input[4]), 1))
WriteGap == Returns("gap", Frac(Linspace(input[2], input[3], input[4], input[5]), 1))
WriteShadow == Returns("shadow", Frac(Shadowed(input[2], input[3]), 1))
WriteNight == Returns("night", Frac(Darkened(input[2], input[3]), 1))
WriteSpecular == Returns("specular", Frac(Darkened(input[2], input[3]), 1))
WriteRealtime == Returns("realtime", Frac(Realtime(input[2], input[3], input[4]), 1))

NextBlend ==
    \/ CallScreen \/ CallMultiply \/ CallGamma \/ CallInterpolate \/ RemapIr
    \/ WriteGlow \/ WriteFinal \/ WriteGap \/ WriteShadow \/ WriteNight
    \/ WriteSpecular \/ WriteRealtime
SpecBlend == InitBlend /\ [][NextBlend]_vars

\* ================================================= the read endpoints
\* the image routes of backend/main.py ("main"), backend/src/earth_viz_api.py
\* ("api") and get_planet_image of the package ("planets", by planet_name)
Endpoints ==
    ({"main", "api"} \X {"earth-clouds", "earth-clouds-realtime", "earth"})
    \cup ({"planets"} \X {"earth", "earth-clouds", "earth-live", "mars"})

\* image_path of an endpoint, as its file name
ImagePath(ep) ==
    IF ep[1] = "planets"
    THEN CASE ep[2] = "earth" -> "earth.jpg"
           [] ep[2] = "earth-clouds" -> "earth-clouds.jpg"
           [] ep[2] = "earth-live" -> "earth-clouds-realtime.jpg"
           [] OTHER -> "mars-surface.jpg"
    ELSE CASE ep[2] = "earth" -> "earth.jpg"
           [] ep[2] = "earth-clouds" -> "earth-clouds.jpg"
           [] OTHER -> "earth-clouds-realtime.jpg"

ImageFiles == {"earth.jpg", "earth-clouds.jpg", "earth-clouds-realtime.jpg", "mars-surface.jpg"}

\* the body of the try block: what it raises, or the Response it returns
TryBody(ep, existing, readable) ==
    IF ImagePath(ep) \notin existing THEN [raised |-> "HTTPException", status |-> 404]
    ELSE IF ~readable THEN [raised |-> "OSError", status |-> 0]
    ELSE [raised |-> "none", status |-> 200]

\* the classes `except Exception` catches: HTTPException derives from Exception
CaughtByExcept == {"HTTPException", "OSError"}

\* status of the answer: the handler re-raises whatever it caught as
\* HTTPException(status_code=500)
StatusOf(r) == IF r.raised \in CaughtByExcept THEN 500 ELSE r.status

ReadRequests == [ep : Endpoints, files : SUBSET ImageFiles, readable : BOOLEAN]

InitRead ==
    /\ IdleSched /\ IdleWs /\ mode = "cpu" /\ IdlePipe /\ IdleRaster
    /\ fpc = "ready" /\ input \in ReadRequests /\ output = <<>>

\* one GET request served by get_earth_clouds, get_earth_clouds_realtime,
\* get_earth or get_planet_image
ServeImage ==
    /\ fpc = "ready"
    /\ fpc' = "called"
    /\ output' = StatusOf(TryBody(input.ep, input.files, input.readable))
    /\ UNCHANGED <<input, restOfFn>>

NextRead == ServeImage
SpecRead == InitRead /\ [][NextRead]_vars

\* ============================================== the websocket bridge
\* list.remove(w): the list without the first occurrence of w
ListRemove(l, w) ==
    IF \E i \in 1..Len(l) : l[i] = w
    THEN LET i == CHOOSE k \in 1..Len(l) : l[k] = w /\ \A j \in 1..(k - 1) : l[j] # w
         IN SubSeq(l, 1, i - 1) \o SubSeq(l, i + 1, Len(l))
    ELSE l

\* earth_control.py:24-27, disconnect
Disconnect(l, w) == ListRemove(l, w)

\* lines 50-51: for conn in disconnected: self.disconnect(conn)
RECURSIVE DisconnectAll(_, _)
DisconnectAll(l, failed) ==
    IF failed = <<>> THEN l ELSE DisconnectAll(Disconnect(l, Head(failed)), Tail(failed))

\* lines 19-22 and 171: the endpoint accepts the socket and appends it
WsConnect(w) ==
    /\ ws[w] = "new"
    /\ ws' = [ws EXCEPT ![w] = "open"]
    /\ active_connections' = Append(active_connections, w)
    /\ UNCHANGED <<cpc, iterIndex, connection, disconnected, sentTo, clients_notified, restOfWs>>

\* the peer of an open socket goes away; the endpoint has not noticed yet
PeerLost(w) ==
    /\ ws[w] = "open"
    /\ ws' = [ws EXCEPT ![w] = "gone"]
    /\ UNCHANGED <<active_connections, cpc, iterIndex, connection, disconnected, sentTo,
                   clients_notified, restOfWs>>

\* lines 172-179: receive_text raises WebSocketDisconnect, the endpoint calls
\* disconnect(websocket)
WsDisconnect(w) ==
    /\ ws[w] = "gone"
    /\ ws' = [ws EXCEPT ![w] = "closed"]
    /\ active_connections' = Disconnect(active_connections, w)
    /\ UNCHANGED <<cpc, iterIndex, connection, disconnected, sentTo, clients_notified, restOfWs>>

\* lines 42-58 from the head of the for loop to the next await or the return:
\* the list iterator hands out active_connections[iterIndex] (counted from 0)
\* while iterIndex < len(active_connections); after the loop the failed
\* sockets are removed and the length of the list is reported
LoopStep(failed) ==
    IF iterIndex' < Len(active_connections)
    THEN /\ connection' = active_connections[iterIndex' + 1]
         /\ cpc' = "sending"
         /\ UNCHANGED <<active_connections, clients_notified>>
    ELSE /\ active_connections' = DisconnectAll(active_connections, failed)
         /\ clients_notified' = Len(active_connections')
         /\ cpc' = "returned"
         /\ connection' = 0

\* lines 29-44: a call of send_command_to_earth up to its first await
SendCommand ==
    /\ cpc \in {"idle", "returned", "raised"}
    /\ disconnected' = <<>>
    /\ sentTo' = {}
    /\ IF active_connections = <<>>
       THEN /\ cpc' = "raised"
            /\ UNCHANGED <<active_connections, iterIndex, connection, clients_notified>>
       ELSE /\ iterIndex' = 0
            /\ connection' = active_connections[1]
            /\ cpc' = "sending"
            /\ UNCHANGED <<active_connections, clients_notified>>
    /\ UNCHANGED <<ws, restOfWs>>

\* lines 43-47: the awaited send_text returns or raises; a send to an open
\* socket returns, a send to a closed one raises, a send to a socket whose
\* peer is gone may do either
SendTextDone ==
    /\ cpc = "sending"
    /\ \E ok \in BOOLEAN :
          /\ ok => ws[connection] \in {"open", "gone"}
          /\ ~ok => ws[connection] \in {"gone", "closed"}
          /\ sentTo' = IF ok THEN sentTo \cup {connection} ELSE sentTo
          /\ disconnected' = IF ok THEN disconnected ELSE Append(disconnected, connection)
          /\ iterIndex' = iterIndex + 1
          /\ LoopStep(disconnected')
    /\ UNCHANGED <<ws, restOfWs>>

InitWs == IdleSched /\ IdleWs /\ mode = "cpu" /\ IdlePipe /\ IdleRaster /\ IdleFn
NextWs ==
    \/ \E w \in Sockets : WsConnect(w)
    \/ \E w \in Sockets : PeerLost(w)
    \/ \E w \in Sockets : WsDisconnect(w)
    \/ SendCommand
    \/ SendTextDone
SpecWs == InitWs /\ [][NextWs]_vars

\* ================================================================ claims
\* C1: at any time at most one cloud-generation run is in progress, for every
\* interleaving of the start-up, periodic and manual triggers: at most one
\* download cycle is between the set and the clear of the in-progress flag,
\* and at most one cloud_generator.py subprocess is alive.
C1_AtMostOneRun == Cardinality(PkgRuns) <= 1 /\ Cardinality(LiveProcs) <= 1

\* C4: a trigger that arrives while a run is in progress is dropped: the number
\* of runs started equals the number of triggers that arrived while no run was
\* in progress.
C4_RunsEqualIdleTriggers == runsStarted = triggersIdle

\* C7: once stop() has been entered, the schedule loop makes no further call of
\* generate_clouds, whatever the loop task was doing at that moment.
C7_NoPeriodicRunAfterStop == [][stopCalled => periodicCalls' = periodicCalls]_vars

\* stop() has cancelled a schedule loop that still had an interval timer to come
C7_Witness == stopCalled /\ cancelReq /\ pc[LoopT] = "done" /\ pc[StopT] = "done" /\ ticks < MaxTicks

\* a run ends in this step: a download cycle leaves generate_clouds, or a worker
\* thread leaves run_in_thread
RunEnds ==
    \/ \E t \in Tasks : t \in PkgRuns /\ pc'[t] \notin {"dl", "dl_ok", "dl_err"}
    \/ \E i \in Threads : i \in LiveThreads /\ thr'[i] = "done"

GuardClear ==
    /\ ~generation_in_progress
    /\ current_process = 0 \/ proc[current_process] # "alive"

\* C8: whenever a run ends, by success or by any failure, the in-progress guard
\* is clear afterwards; the schedule loop stays alive until stop(); and a
\* periodic trigger that finds no run in progress starts a new run.
C8_FailedRunRecoverable ==
    /\ [][RunEnds => GuardClear']_vars
    /\ []((pc[StartT] = "done" /\ ~stopCalled) => pc[LoopT] \notin {"none", "done"})
    /\ [][(periodicCalls' = periodicCalls + 1 /\ ~Busy) => runsStarted' = runsStarted + 1]_vars

\* a download cycle failed, the guard is clear again and a later periodic
\* trigger has started a further run
C8_Witness ==
    /\ variant = "pkg" /\ cycle >= 2 /\ earthClouds = 0
    /\ pc[LoopT] = "dl" /\ periodicCalls >= 1

\* process_images is executing
InProcess == gpc = "merge" \/ (gpc \in {"compose", "save"} /\ stage <= SPECULAR)

\* C2: if loading one of the ten source images fails, the run produces no
\* output: cloud_generator writes no output file in that run and
\* generate_live_clouds returns no image.
C2_NoOutputAfterLoadFailure ==
    LoadFailure(defect) =>
        /\ \A f \in Stages \X Tiers : files[f] # Fresh
        /\ liveResult # "image"

\* C3: process_images runs only when every entry of images_to_load is loaded,
\* at most once in a run and exactly once in a run that gets past its loads;
\* the GPU service goes on to textures and rendering only after all ten fetch
\* tasks have returned.
C3_ProcessAfterAllLoads ==
    /\ InProcess => \A k \in Images : loaded[k]
    /\ processCalls <= 1
    /\ gpc \in {"blend", "find", "done"} => processCalls = 1
    /\ (gpc = "save" /\ stage > SPECULAR) => processCalls = 1
    /\ lpc \in {"pass1", "pass2"} => \A k \in Images : fetch[k] = "done"
    /\ (lpc = "returned" /\ run > 0) => \A k \in Images : fetch[k] = "done"

\* the tenth load has called process_images, and the GPU service renders
C3_Witness ==
    \/ mode = "cpu" /\ gpc = "merge" /\ loadIdx = 10 /\ processCalls = 1
    \/ mode = "gpu" /\ lpc = "pass1"

\* C5: when the save of one output file fails, every file published by an
\* earlier run still has its earlier content.
C5_FailedSaveKeepsOldFile ==
    [][gpc' = "crashed" => \A f \in Stages \X Tiers : files[f] = Old => files'[f] = Old]_vars

\* C6: a run one of whose channel rasters has not the expected dimensions is
\* aborted before processing and publishes no output.
C6_WrongDimensionsAbort ==
    defect[2] = "wrongdim" =>
        /\ ~InProcess
        /\ \A f \in Stages \X Tiers : files[f] # Fresh
        /\ lpc \notin {"pass1", "pass2"}
        /\ liveResult # "image"

\* C9: when no tier holds both earth.jpg and earth-night.jpg, the tier search of
\* create_day_night_blend returns without raising and leaves every output file
\* as it is, so no earth-realtime file is written and the other outputs stay.
C9_BlendSkipIsHarmless ==
    [][(gpc = "find" /\ gpc' # "find" /\ \A i \in Tiers : ~HasBoth(files, i))
        => (gpc' = "done" /\ blendSkipped' /\ files' = files)]_vars

\* the blend was skipped in a run whose clouds, clouds-alpha and specular files
\* are all published and which wrote no earth-realtime file
C9_Witness ==
    /\ gpc = "done" /\ blendSkipped
    /\ \A i \in Tiers : ~HasBoth(files, i)
    /\ \A i \in Tiers : files[<<1, i>>] = Fresh /\ files[<<2, i>>] = Fresh /\ files[<<SPECULAR, i>>] = Fresh
    /\ \A i \in Tiers : files[<<EARTH_REALTIME, i>>] # Fresh

\* C10: the halves are merged the wrong way round and swapped back exactly
\* once before the raster is published: in the published cloud raster every
\* pixel of columns [0, W/2) was computed from the same column of the *_LEFT
\* source rasters and every pixel of columns [W/2, W) from column x - W/2 of
\* the *_RIGHT source rasters.
C10_SwapUndoneOnce ==
    rpc = "published" =>
        \A y \in Rows, x \in Cols :
            /\ cloud[y][x].o[1] = (IF x < SOURCE_WIDTH \div 2 THEN "LEFT" ELSE "RIGHT")
            /\ cloud[y][x].o[3] = (IF x < SOURCE_WIDTH \div 2 THEN x ELSE x - SOURCE_WIDTH \div 2)

\* a raster was published whose seam gap (east edge of the right half, west
\* edge of the left half) has been filled
C10_Witness ==
    /\ rpc = "published"
    /\ halfR.trail > 0 /\ halfL.lead > 0
    /\ \A x \in Cols : cloud[SOURCE_HEIGHT \div 2][x].v # Sentinel

\* pixels a..b of a row run from the value `from` to the value `to` without
\* changing direction
MonotoneRun(row, a, b, from, to) ==
    /\ row[a].r = from
    /\ row[b].r = to
    /\ \A x \in a..(b - 1) : IF from <= to THEN row[x].r <= row[x + 1].r ELSE row[x].r >= row[x + 1].r

\* C11: after the gap fill of a row, for every gap the scan accepted the pixels
\* of [gap_start, gap_end] (from the row start when gap_start is left of it) run
\* monotonically from gap_start_val to gap_end_val, each lies in [0,255] and has
\* R = G = B.
C11_GapFillMonotonic ==
    fpc = "called" =>
        \A k \in 1..Len(GapsOf(input)) :
            LET gap == GapsOf(input)[k]
                a == IF gap.gs < 0 THEN 0 ELSE gap.gs
            IN /\ MonotoneRun(output, a, gap.ge, gap.gsv, gap.gev)
               /\ \A x \in a..gap.ge :
                    /\ output[x].r \in 0..255
                    /\ output[x].r = output[x].g /\ output[x].g = output[x].b

\* the two fragment programs in the order of the stages of process_images:
\* compose_prog (channel blend) in pass 1, process_prog (swap, poles, frame) in pass 2
StagesOfCpuPath == <<"compose", "process">>

\* C12: the GPU path yields the cloud raster of the CPU path: every call of
\* generate_live_clouds that returns an image has rendered pass 1 with the
\* channel-blend program and pass 2 with the swap/pole/frame program, the
\* stages of process_images in their order.
C12_GpuRunsCpuStages ==
    (mode = "gpu" /\ lpc = "returned" /\ liveResult = "image")
        => <<pass1Program, vaoProgram>> = StagesOfCpuPath

\* C13: the blend loads earth.jpg and earth-night.jpg from the largest tier
\* that holds both: whenever some tier holds both files when the search runs,
\* the search finds a tier, and it is the one of smallest scale factor among
\* them (tier 0, the factor-1 tier, whenever it holds both).
C13_BlendUsesLargestTier ==
    [][(gpc = "find" /\ gpc' # "find" /\ \E i \in Tiers : HasBoth(files, i))
        => /\ gpc' # "done"
           /\ FoundTier(files) \in Tiers
           /\ HasBoth(files, FoundTier(files))
           /\ \A j \in Tiers : HasBoth(files, j) => FoundTier(files) <= j]_vars

\* C14: every file a consumer expects is among the files of a successful run:
\* when a run of cloud_generator has ended with the blend done, each path of
\* expected_files and each image_path of the read endpoints exists.
C14_ExpectedFilesWritten ==
    (mode = "cpu" /\ gpc = "done" /\ ~blendSkipped)
        => (ExpectedFiles \cup ServedFiles) \subseteq Existing(files)

\* the four tier directories: factors 1, 2, 4 and 8 of 8192x4096
PyramidDirs == {<<8192, 4096>>, <<4096, 2048>>, <<2048, 1024>>, <<1024, 512>>}

\* C15: save_image_resolutions writes, for the format of each call, exactly
\* four files, one in each of the directories 8192x4096, 4096x2048, 2048x1024
\* and 1024x512, and every artifact of a run (clouds, clouds-alpha, earth,
\* earth-night, specular, terminator-mask, earth-realtime) is written at all
\* four tiers: at the end of a run the files written under each name are
\* exactly the four of its pyramid, and a stage that has been left has its four.
C15_FourTiersPerArtifact ==
    /\ (mode = "cpu" /\ gpc = "done" /\ ~blendSkipped)
          => \A s \in Stages :
                {p \in Written(files) : p[2] = Outputs[s]}
                    = {<<d, Outputs[s], Formats[s]>> : d \in PyramidDirs}
    /\ (mode = "cpu" /\ gpc = "save")
          => \A i \in 0..(tier - 1) : PathOf(stage, i) \in Written(files)
    /\ \A p \in Written(files) : p[1] \in PyramidDirs

\* a run has ended after the blend with all 28 files written
C15_Witness ==
    /\ mode = "cpu" /\ gpc = "done" /\ ~blendSkipped
    /\ Cardinality(Written(files)) = 28

\* C16: the hemisphere swap applied twice gives back the raster it started
\* from, pixel for pixel (the width of the raster is even).
C16_SwapTwiceIsIdentity ==
    /\ SOURCE_WIDTH % 2 = 0
    /\ fpc = "twice" => output = input
    /\ fpc = "once" => \A y \in Rows, x \in Cols :
          output[y][x] = input[y][(x + SOURCE_WIDTH \div 2) % SOURCE_WIDTH]

\* the swap has been applied twice to a raster whose halves differ
C16_Witness ==
    /\ fpc = "twice"
    /\ \E y \in Rows, x \in 0..(SOURCE_WIDTH \div 2 - 1) :
          input[y][x] # input[y][x + SOURCE_WIDTH \div 2]

\* C17: a run leaves nothing behind that changes the next run: every call of
\* generate_live_clouds begins with the vertex array bound to the program it
\* was constructed with, so that equal inputs give equal outputs call after
\* call, and every run of cloud_generator begins with no image marked loaded.
C17_NoStateLeftBehind ==
    [][(run' = run + 1)
        => /\ mode = "gpu" => vaoProgram = "compose"
           /\ mode = "cpu" => (processCalls' = 0 /\ \A k \in Images : ~loaded'[k])]_vars

\* the point opposite to (lat, lon) on the grid
Antipode(lat, lon) == <<0 - lat, IF lon > 0 THEN lon - 180 ELSE lon + 180>>

\* C18: every value of the day/night mask lies in [0,1]; the mask is 1 at the
\* subsolar point and 0 at its antipode; and two pixels whose cos_zenith are
\* opposite, inside the twilight band, have mask values that add up to 1.
C18_MaskBoundedAndSymmetric ==
    fpc = "called" =>
        /\ \A p \in MaskPixels : output[p] >= 0 /\ output[p] <= MaskOne
        /\ output[<<input[1], input[2]>>] = MaskOne
        /\ output[Antipode(input[1], input[2])] = 0
        /\ \A p, q \in MaskPixels :
              LET c == CosZenith(p[1], p[2], input[1], input[2])
                  d == CosZenith(q[1], q[2], input[1], input[2])
              IN (c + d = 0 /\ c >= 0 - SIN_TWILIGHT /\ c <= SIN_TWILIGHT)
                    => output[p] + output[q] = MaskOne

\* a mask has been computed that has a pixel inside the twilight band, off the
\* terminator itself, and an opposite pixel on the night side of the band
C18_Witness ==
    /\ fpc = "called"
    /\ \E p, q \in MaskPixels :
          /\ output[p] > MaskOne \div 2 /\ output[p] < MaskOne
          /\ output[q] > 0 /\ output[q] < MaskOne \div 2
          /\ output[p] + output[q] = MaskOne

\* the fraction f lies in [0, 255]
InByteRange(f) == f.num >= 0 /\ f.num <= 255 * f.den

\* C19: for inputs in [0,255] the results of screen, multiply and gamma lie in
\* [0,255], and so does every value written into a raster after a blend or
\* gamma step: cloud intensity, gap-fill values, edge glow, shadowed day Earth,
\* night Earth, specular and real-time blend.
C19_ValuesStayInRange ==
    (fpc = "called" /\ input[1] \notin {"interpolate", "ir"})
        => /\ InByteRange(output)
           /\ input[1] \notin {"screen", "multiply"} => output.den = 1

\* the edge glow has reached its upper limit for an input below 255
C19_Witness ==
    /\ fpc = "called"
    /\ input[1] = "glow" /\ input[2] < 255 /\ output.num = 255

\* thresholds and straight line of the IR remap, for the raw value x and the
\* result f: 0 below 72 and at 72, 255 above 178 and at 178, and
\* 255 * (x - 72) / (178 - 72) in between
IrThresholdsAndLine(x, f) ==
    /\ f.den = 178 - 72
    /\ x < 72 => f.num = 0
    /\ x > 178 => f.num = 255 * f.den
    /\ x = 72 => f.num = 0
    /\ x = 178 => f.num = 255 * f.den
    /\ (x >= 72 /\ x <= 178) => f.num = 255 * (x - 72)

\* f is x, up to one tenth, x given in tenths
About(f, tenths) ==
    /\ 10 * f.num - tenths * f.den <= f.den
    /\ tenths * f.den - 10 * f.num <= f.den

\* C20 as stated: the IR remap sends raw values below 72 to 0 and above 178 to
\* 255, 72 to 0 and 178 to 255, is linear in between, and raw value 125 gives
\* about 243.8.
C20_AsStated ==
    (fpc = "called" /\ input[1] \in {"ir", "interpolate"})
        => /\ IrThresholdsAndLine(input[2], output)
           /\ input[2] = 125 => About(output, 2438)

\* C20 (amended): the IR remap sends raw values below 72 to 0 and above 178 to
\* 255, 72 to 0 and 178 to 255, is linear in between, and raw value 125 gives
\* 255 * (125 - 72) / (178 - 72) = 127.5, half of the range.
C20_IrRemapLinear ==
    (fpc = "called" /\ input[1] \in {"ir", "interpolate"})
        => /\ IrThresholdsAndLine(input[2], output)
           /\ input[2] = 125 => (2 * output.num = 255 * output.den /\ About(output, 1275))

\* the remap of the raw value 125 has been computed
C20_Witness ==
    /\ fpc = "called"
    /\ input = <<"ir", 125>>
    /\ output = Frac(255 * 53, 106)

\* C21: the scan accepts a gap end only after 3 consecutive non-sentinel
\* pixels: for every gap whose end x the scan of a row accepts, the pixels at
\* x-3, x-2, x-1 and x of the row before the fill are all below 255.
C21_GapEndAfterThreeInARow ==
    fpc = "called" =>
        \A k \in 1..Len(GapsOf(input)) :
            \A d \in 0..GAP_BUFFER :
                LET x == GapsOf(input)[k].ge - d
                IN x >= 0 /\ input[x].r < Sentinel

\* C22: every gap whose end the scan accepts is filled, wherever it lies in
\* the row: the gap accepted last in a row (no later fill touches it) holds,
\* from its start column, or from column 0 when the sentinel run begins fewer
\* than 3 columns from the row start, to its end column the linear
\* interpolation between gap_start_val and gap_end_val, in all three channels.
C22_EveryAcceptedGapFilled ==
    (fpc = "called" /\ Len(GapsOf(input)) > 0) =>
        LET gap == GapsOf(input)[Len(GapsOf(input))]
            a == IF gap.gs < 0 THEN 0 ELSE gap.gs
        IN \A x \in a..gap.ge :
              output[x] = Grey(Linspace(gap.gsv, gap.gev, gap.ge - a + 1, x - a))

\* the raster the gap fill starts from
BlendedRaster == [y \in Rows |-> [x \in Cols |-> BlendedPixel(y, x)]]

\* columns of the intervals [gap_start, gap_end] the scan of row y of the
\* blended raster accepts
AcceptedCols(y) ==
    LET gaps == ScanGaps([x \in Cols |-> BlendedRaster[y][x].v], 0, NoGap, 0, 0, <<>>)
    IN {x \in Cols : \E k \in 1..Len(gaps) : x >= gaps[k].gs /\ x <= gaps[k].ge}

\* C23: the gap-fill pass changes only rows inside [H/8, H - H/8): a pixel the
\* pass has changed lies in such a row and inside an interval [gap_start,
\* gap_end] the scan of its row accepted, and a row without a pixel equal to
\* 255 is unchanged.
C23_GapFillFrame ==
    rpc = "gapfilled" =>
        /\ \A y \in Rows, x \in Cols :
              cloud[y][x] # BlendedRaster[y][x]
                  => /\ y >= SOURCE_HEIGHT \div 8
                     /\ y < SOURCE_HEIGHT - SOURCE_HEIGHT \div 8
                     /\ x \in AcceptedCols(y)
        /\ \A y \in Rows :
              (\A x \in Cols : BlendedRaster[y][x].v # Sentinel) => cloud[y] = BlendedRaster[y]

\* the pass has filled a gap in a processed row and has left the sentinel
\* pixels of the first and the last row of the raster alone
C23_Witness ==
    /\ rpc = "gapfilled"
    /\ \E y \in Rows, x \in Cols : cloud[y][x] # BlendedRaster[y][x]
    /\ \E x \in Cols : cloud[0][x].v = Sentinel
    /\ \E x \in Cols : cloud[SOURCE_HEIGHT - 1][x].v = Sentinel

\* C24: the gap fill of a row depends on that row's pixels only: when the rows
\* have been processed, in whatever order, the raster is the one the pass from
\* top to bottom gives, each processed row being the fill of its own blended
\* row, and the order leaves no trace.
C24_RowOrderIrrelevant ==
    fpc = "rows" =>
        \A y \in Rows :
            cloud[y] = IF y \in output.done THEN GapFillRow(OrderRow(input, y))
                       ELSE OrderRow(input, y)

\* all rows have been processed, the topmost of them last; the scan of that
\* row ended with a gap open, and a gap near the start of the rows has been
\* filled
C24_Witness ==
    /\ fpc = "rows" /\ rpc = "gapfilled"
    /\ output.last = SOURCE_HEIGHT \div 8
    /\ output.scan.gs # NoGap
    /\ \E y \in Rows : OrderRow(input, y)[3].v = Sentinel /\ cloud[y][3].v # Sentinel

\* the raster after gap fill and swap, which the pole mirroring starts from
SwappedRaster ==
    SwapHalves([y \in Rows |->
        IF y >= SOURCE_HEIGHT \div 8 /\ y < SOURCE_HEIGHT - SOURCE_HEIGHT \div 8
        THEN GapFillRow(BlendedRaster[y]) ELSE BlendedRaster[y]])

C26_PassPrograms ==
    /\ (mode = "gpu" /\ pass1Program # "none") => pass1Program = "compose"
    /\ (mode = "gpu" /\ liveResult = "image") => vaoProgram = "process"

\* C28: the downloading scheduler replaces a published file only after both
\* downloads have succeeded: a cycle whose day or night request has failed
\* changes neither earth-clouds.jpg nor earth-clouds-night.jpg, and the two
\* published files always come from the same download cycle.
C28_PublishedPairFromOneCycle ==
    [][/\ (\E t \in Tasks : pc[t] = "dl_err" /\ pc'[t] # "dl_err")
            => (earthClouds' = earthClouds /\ earthCloudsNight' = earthCloudsNight)
       /\ (\E t \in Tasks : pc[t] = "dl" /\ pc'[t] \notin {"dl", "dl_ok"})
            => (earthClouds' = earthClouds /\ earthCloudsNight' = earthCloudsNight)
       /\ earthClouds' = earthCloudsNight']_vars

\* C29: a read endpoint asked for an image whose file does not exist answers
\* with status 404, and status 500 is the answer only when reading a file that
\* exists has failed.
C29_MissingFileIs404 ==
    fpc = "called" =>
        /\ ImagePath(input.ep) \notin input.files => output = 404
        /\ output = 500 => (ImagePath(input.ep) \in input.files /\ ~input.readable)

\* C27: after the swap and the pole mirroring, before the frame overlay, every
\* pixel of the raster was computed from a source row inside [H/8, H - H/8),
\* the rows the gap-fill pass processes, and is the pixel that row has after
\* the gap fill in the column of the other half: no pixel of a skipped row is left.
C27_NoSkippedRowSurvives ==
    rpc = "mirrored" =>
        \A y \in Rows, x \in Cols :
            LET src == cloud[y][x].o[2]
            IN /\ src >= SOURCE_HEIGHT \div 8
               /\ src < SOURCE_HEIGHT - SOURCE_HEIGHT \div 8
               /\ cloud[y][x] = GapFillRow(BlendedRaster[src])[(x + SOURCE_WIDTH \div 2) % SOURCE_WIDTH]

\* the poles have been mirrored over skipped rows that held pixels without
\* data: the first and the last row now come from processed rows
C27_Witness ==
    /\ rpc = "mirrored"
    /\ \E x \in Cols : BlendedRaster[0][x].v = Sentinel
    /\ \E x \in Cols : BlendedRaster[SOURCE_HEIGHT - 1][x].v = Sentinel
    /\ cloud[0][0].o[2] = 2 * (SOURCE_HEIGHT \div 8) - 1
    /\ cloud[SOURCE_HEIGHT - 1][0].o[2] = SOURCE_HEIGHT - 2 * (SOURCE_HEIGHT \div 8)

\* a step in which a call of send_command_to_earth begins (no socket changes
\* its state in such a step)
CommandBegins ==
    cpc \in {"idle", "returned", "raised"} /\ cpc' \in {"raised", "sending"} /\ ws' = ws

\* the call raises the 503 error exactly when no client is connected
RaisesWithoutClients ==
    [][CommandBegins => (cpc' = "raised" <=> active_connections = <<>>)]_vars

\* the count returned is the number of sockets whose send_text returned normally
CountIsSent == cpc = "returned" => clients_notified = Cardinality(sentTo)

\* no socket whose send raised is in active_connections after the return
FailedRemoved ==
    cpc = "returned" =>
        \A i \in 1..Len(active_connections), j \in 1..Len(disconnected) :
            active_connections[i] # disconnected[j]

\* C30: send_command_to_earth raises the 503 error when no client is connected;
\* otherwise clients_notified equals the number of clients the message was
\* actually sent to, and after the return active_connections holds no client
\* whose send failed, whatever connects or disconnects while sends are awaited.
C30_CommandCount == RaisesWithoutClients /\ [](CountIsSent /\ FailedRemoved)

====
